---- MODULE Spec2Model ----
(***************************************************************************)
(* A model of the monoruby executor: the basic-block context the JIT keeps *)
(* while it compiles (BBContext), the code it emits for side exits, method *)
(* calls, integer and float arithmetic and branches, the packing of floats *)
(* into values, and method resolution in Globals.                          *)
(*                                                                         *)
(* Machine words are 64 bits wide.  A word is modelled as the set of the   *)
(* positions of its one-bits, so that and/or/rotate/shift and the carry    *)
(* chain of an addition are computed bit by bit.                           *)
(***************************************************************************)
EXTENDS Integers, Sequences, FiniteSets, TLC

VARIABLES
    stack_slot,   \* BBContext.stack_slot : slot -> LinkMode
    xmm,          \* BBContext.xmm : register index -> sequence of slots
    panic,        \* TRUE once an assert!/unreachable!() of the compiler fired
    op,           \* the operation performed last
    rax,          \* general register rax
    xmm0,         \* scratch float register xmm0
    fpr,          \* float registers xmm2 .. xmm15, indexed as BBContext.xmm
    loc,          \* where control is in the generated code
    stack,        \* the stack slots of the frame: slot -> Value
    r13,          \* the bytecode pc register
    code,         \* the instructions of the side exit still to be executed
    exit_slots,   \* the stack_slot of the context the running side exit was built for
    exit_pc,      \* the pc the running side exit was built for
    methods,      \* the method tables of the classes: class -> name -> Option<FuncId>
    func_arity,   \* the arity of each function
    error,        \* Globals.error
    query,        \* the receiver class, name and argument count looked up
    found,        \* what the lookup returned
    class_version,\* the global class version
    site,         \* the call site: the code generated for it and its receiver
    cache,        \* the inline cache of the site (class, version, target)
    snap,         \* the cache entry a compiled site was specialised for
    bumps,        \* how many times the class version was bumped
    last_call,    \* what the last call through the site did
    counter,      \* the call counter of the JIT stub of each function
    stub_entry,   \* the first instruction of each stub: the counter code or a jmp
    meta,         \* the kind recorded in the meta of each function
    compiled,     \* the self class each function was compiled for
    running,      \* where the last call of a function runs
    bc,           \* the Bc handed to the decoder
    bcop,         \* the BcOp the decoder returned
    inv,          \* the registers and the position of the code that sets arguments
    mem,          \* the memory that code reads and writes, by address
    entries,      \* the contexts of the pending branches into one basic block
    merged,       \* the slot infos the entries were merged into
    const_version,\* the global constant version
    const_table,  \* the value of each constant, None when it is not defined
    const_site,   \* the cache of each LoadConst site
    last_load     \* what the last LoadConst did

bbvars == <<stack_slot, xmm, panic>>

jitvars == <<stack_slot, xmm, panic, rax, xmm0, fpr, loc,
            stack, r13, code, exit_slots, exit_pc>>

findvars == <<methods, func_arity, error, query, found>>

icvars == <<class_version, site, cache, snap, bumps, last_call>>

stubvars == <<counter, stub_entry, meta, compiled, running>>

decvars == <<bc, bcop>>

invvars == <<inv, mem>>

edgevars == <<entries, merged>>

constvars == <<const_version, const_table, const_site, last_load>>

auxvars == <<stubvars, decvars, invvars, edgevars, constvars>>

vars == <<stack_slot, xmm, panic, op, rax, xmm0, fpr, loc,
          stack, r13, code, exit_slots, exit_pc,
          methods, func_arity, error, query, found,
          class_version, site, cache, snap, bumps, last_call,
          counter, stub_entry, meta, compiled, running, bc, bcop,
          inv, mem, entries, merged,
          const_version, const_table, const_site, last_load>>

(***************************************************************************)
(* Bounds of the model.                                                    *)
(***************************************************************************)
\* number of stack slots of the compiled function (reg_num)
NumSlots == 2

\* number of classes
NumClasses == 3

\* a call passes at most this many arguments
MaxArgs == 3

\* a branch is taken after at most this many instructions of its block
MaxOps == 2

\* the class version is bumped at most this many times
MaxBumps == 2

\* number of slots of the function whose locals are all floats
MaxLocals == 15

(***************************************************************************)
(* 64-bit machine words                                                    *)
(***************************************************************************)
Bit == 0 .. 63

\* the word of a small natural number
W(n) == {i \in 0 .. 30 : (n \div (2 ^ i)) % 2 = 1}

BAnd(x, y) == x \cap y

BOr(x, y) == x \cup y

BNot(x) == Bit \ x

Shl(x, k) == {i + k : i \in x} \cap Bit

Shr(x, k) == {i - k : i \in x} \cap Bit

Sar(x, k) == Shr(x, k) \cup (IF 63 \in x THEN {i \in Bit : i + k > 63} ELSE {})

Rol(x, k) == {(i + k) % 64 : i \in x}

Maj(a, b, c) == (a /\ b) \/ (a /\ c) \/ (b /\ c)

\* bits st.i .. 63 of x + y: st.c is the carry into bit st.i, st.cp the carry
\* into the bit below, st.sum the sum bits below st.i.  Once there is no
\* carry and one operand has no bit left, the rest of the other operand is
\* the rest of the sum.
RECURSIVE AddFrom(_, _, _)
AddFrom(x, y, st) ==
    IF st.i = 64 THEN [sum |-> st.sum, of |-> st.c # st.cp, cf |-> st.c]
    ELSE IF ~st.c /\ (\A j \in y : j < st.i)
    THEN [sum |-> st.sum \cup {j \in x : j >= st.i}, of |-> FALSE, cf |-> FALSE]
    ELSE IF ~st.c /\ (\A j \in x : j < st.i)
    THEN [sum |-> st.sum \cup {j \in y : j >= st.i}, of |-> FALSE, cf |-> FALSE]
    ELSE AddFrom(x, y,
            [i |-> st.i + 1,
             c |-> Maj(st.i \in x, st.i \in y, st.c),
             cp |-> st.c,
             sum |-> IF ((st.i \in x) # (st.i \in y)) # st.c
                     THEN st.sum \cup {st.i} ELSE st.sum])

\* x + y + cin with the overflow flag (signed) and the carry flag
AddC(x, y, cin) == AddFrom(x, y, [i |-> 0, c |-> cin, cp |-> cin, sum |-> {}])

\* addq: x + y
Addq(x, y) == AddC(x, y, FALSE)

\* subq: x - y = x + ~y + 1
Subq(x, y) == AddC(x, BNot(y), TRUE)

\* the low 32 bits, zero-extended (the result of an instruction with an l suffix)
Low32(x) == x \cap (0 .. 31)

(***************************************************************************)
(* BBContext                                                               *)
(***************************************************************************)
\* the length of BBContext.xmm
NumXmm == 14

XmmIdx == 0 .. (NumXmm - 1)

SlotIds == 0 .. (NumSlots - 1)

LinkNone == <<"None">>

XmmR(freg) == <<"XmmR", freg>>

XmmRW(freg) == <<"XmmRW", freg>>

IsLinked(mode) == mode[1] # "None"

\* registers that appear in the slot infos handed to the compiler from outside
InputRegs == 0 .. (NumSlots - 1)

LinkModes == {LinkNone} \cup {XmmR(f) : f \in InputRegs} \cup {XmmRW(f) : f \in InputRegs}

StackSlotInfos == [SlotIds -> LinkModes]

Contains(v, reg) == \E k \in 1 .. Len(v) : v[k] = reg

Retain(v, reg) == SelectSeq(v, LAMBDA e : e # reg)

Panicked(ctx) == [ctx EXCEPT !.panic = TRUE]

BBContext_new(reg_num) ==
    [stack_slot |-> [i \in 0 .. (reg_num - 1) |-> LinkNone],
     xmm |-> [f \in XmmIdx |-> <<>>],
     panic |-> FALSE]

RECURSIVE from_loop(_, _, _)
from_loop(ctx, slot_info, i) ==
    IF i \notin DOMAIN slot_info THEN ctx
    ELSE LET mode == slot_info[i] IN
         from_loop(IF mode[1] = "None" THEN ctx
                   ELSE [ctx EXCEPT !.stack_slot[i] = mode,
                                    !.xmm[mode[2]] = Append(@, i)],
                   slot_info, i + 1)

BBContext_from(slot_info) ==
    from_loop(BBContext_new(Cardinality(DOMAIN slot_info)), slot_info, 0)

\* the first vacant register, NumXmm when there is none (unreachable!())
alloc_xmm(ctx) ==
    IF \E f \in XmmIdx : ctx.xmm[f] = <<>>
    THEN CHOOSE f \in XmmIdx :
            /\ ctx.xmm[f] = <<>>
            /\ \A g \in 0 .. (f - 1) : ctx.xmm[g] # <<>>
    ELSE NumXmm

link_rw_xmm(ctx, reg, freg) ==
    [ctx EXCEPT !.stack_slot[reg] = XmmRW(freg), !.xmm[freg] = Append(@, reg)]

link_r_xmm(ctx, reg, freg) ==
    [ctx EXCEPT !.stack_slot[reg] = XmmR(freg), !.xmm[freg] = Append(@, reg)]

dealloc_xmm_no_retain(ctx, reg) ==
    [ctx EXCEPT !.stack_slot[reg] = LinkNone]

dealloc_xmm(ctx, reg) ==
    LET mode == ctx.stack_slot[reg] IN
    IF mode[1] = "None" THEN ctx
    ELSE IF ~Contains(ctx.xmm[mode[2]], reg) THEN Panicked(ctx)
    ELSE [ctx EXCEPT !.xmm[mode[2]] = Retain(@, reg),
                     !.stack_slot[reg] = LinkNone]

xmm_swap(ctx, l, r) ==
    [ctx EXCEPT
        !.xmm = [f \in XmmIdx |-> IF f = l THEN ctx.xmm[r]
                                  ELSE IF f = r THEN ctx.xmm[l]
                                  ELSE ctx.xmm[f]],
        !.stack_slot = [i \in DOMAIN ctx.stack_slot |->
            LET mode == ctx.stack_slot[i] IN
            IF mode[1] = "None" THEN mode
            ELSE IF mode[2] = l THEN <<mode[1], r>>
            ELSE IF mode[2] = r THEN <<mode[1], l>>
            ELSE mode]]

\* a slot that is XmmRW keeps its register also when other slots share it
xmm_write_keep_shared(ctx, reg) ==
    LET mode == ctx.stack_slot[reg] IN
    IF mode[1] = "XmmRW"
    THEN [ctx |-> ctx, freg |-> mode[2]]
    ELSE LET d == dealloc_xmm(ctx, reg)
             freg == alloc_xmm(d)
         IN  [ctx |-> IF d.panic \/ freg = NumXmm THEN Panicked(d)
                      ELSE link_rw_xmm(d, reg, freg),
              freg |-> freg]

\* the context after the call and the register returned
xmm_write(ctx, reg) ==
    LET mode == ctx.stack_slot[reg] IN
    IF mode[1] = "XmmRW" /\ Len(ctx.xmm[mode[2]]) = 1
    THEN [ctx |-> IF ctx.xmm[mode[2]][1] = reg THEN ctx ELSE Panicked(ctx),
          freg |-> mode[2]]
    ELSE LET d == dealloc_xmm(ctx, reg)
             freg == alloc_xmm(d)
         IN  [ctx |-> IF d.panic \/ freg = NumXmm THEN Panicked(d)
                      ELSE link_rw_xmm(d, reg, freg),
              freg |-> freg]

alloc_xmm_read(ctx, reg) ==
    IF ctx.stack_slot[reg][1] = "None"
    THEN LET freg == alloc_xmm(ctx) IN
         [ctx |-> IF freg = NumXmm THEN Panicked(ctx)
                  ELSE link_r_xmm(ctx, reg, freg),
          freg |-> freg]
    ELSE [ctx |-> Panicked(ctx), freg |-> NumXmm]

\* the context after the call; "copied" tells that the stack copy was emitted
copy_slot(ctx, src, dst) ==
    LET d == dealloc_xmm(ctx, dst)
        mode == d.stack_slot[src]
    IN  IF d.panic THEN [ctx |-> d, copied |-> FALSE]
        ELSE IF mode[1] = "None" THEN [ctx |-> d, copied |-> TRUE]
        ELSE [ctx |-> link_rw_xmm(d, dst, mode[2]), copied |-> FALSE]

\* the context after the call; "stored" tells that the store was emitted
write_back_slot(ctx, reg) ==
    LET mode == ctx.stack_slot[reg] IN
    IF mode[1] = "XmmRW"
    THEN [ctx |-> [ctx EXCEPT !.stack_slot[reg] = XmmR(mode[2])], stored |-> TRUE]
    ELSE [ctx |-> ctx, stored |-> FALSE]

RECURSIVE remove_unused(_, _)
remove_unused(ctx, unused) ==
    IF unused = <<>> THEN ctx
    ELSE remove_unused(dealloc_xmm(ctx, Head(unused)), Tail(unused))

RECURSIVE get_write_back_from(_, _)
get_write_back_from(ctx, i) ==
    IF i = NumXmm THEN <<>>
    ELSE LET v == SelectSeq(ctx.xmm[i],
                            LAMBDA reg : ctx.stack_slot[reg][1] = "XmmRW")
         IN  (IF v = <<>> THEN <<>> ELSE << <<i, v>> >>)
             \o get_write_back_from(ctx, i + 1)

\* every slot of a register in use, whatever its mode
get_write_back_all_linked(ctx) ==
    LET RECURSIVE all_from(_)
        all_from(i) == IF i = NumXmm THEN <<>>
                       ELSE (IF ctx.xmm[i] = <<>> THEN <<>> ELSE << <<i, ctx.xmm[i]>> >>)
                            \o all_from(i + 1)
    IN all_from(0)

get_write_back(ctx) == get_write_back_from(ctx, 0)

get_xmm_using(ctx) == {i \in XmmIdx : ctx.xmm[i] # <<>>}

(***************************************************************************)
(* Code emitted for write-back and for the reconciliation of a context     *)
(* with the context of a branch target.  Emitted code is a sequence of     *)
(* abstract instructions:                                                  *)
(*   <<"wb", freg, v>>     xmm0 <- xmm(freg); call f64_to_val; store rax   *)
(*                         to every slot of v                              *)
(*   <<"mov", r, l>>       xmm(r) <- xmm(l)                                *)
(*   <<"swap", l, r>>      exchange xmm(l) and xmm(r) through xmm0         *)
(*   <<"set_pc", pc>>      r13 <- pc                                       *)
(*   <<"jmp_fetch">>       jmp vm_fetch                                    *)
(***************************************************************************)
gen_write_back_single(freg, v) ==
    IF Len(v) = 0 THEN <<>> ELSE << <<"wb", freg, v>> >>

RECURSIVE gen_write_back(_)
gen_write_back(wb) ==
    IF wb = <<>> THEN <<>>
    ELSE gen_write_back_single(Head(wb)[1], Head(wb)[2]) \o gen_write_back(Tail(wb))

\* r13 is set before the write-back
gen_side_deopt_dest_pc_first(pc, wb) ==
    << <<"set_pc", pc>> >> \o gen_write_back(wb) \o << <<"jmp_fetch">> >>

gen_side_deopt_dest(pc, wb) ==
    (IF Len(wb) # 0 THEN gen_write_back(wb) ELSE <<>>)
    \o << <<"set_pc", pc>>, <<"jmp_fetch">> >>

\* first loop of gen_write_back_for_target: slots the target does not link
RECURSIVE wb_target_unlink(_, _, _)
wb_target_unlink(s, target, i) ==
    IF i \notin DOMAIN target THEN s
    ELSE LET mode == s.ctx.stack_slot[i] IN
         wb_target_unlink(
            IF target[i] # LinkNone \/ s.ctx.panic THEN s
            ELSE IF mode[1] = "XmmRW"
            THEN LET freg == mode[2]
                     v == s.ctx.xmm[freg]
                     c1 == [s.ctx EXCEPT !.stack_slot =
                               [j \in DOMAIN s.ctx.stack_slot |->
                                  IF Contains(v, j) THEN XmmR(freg)
                                  ELSE s.ctx.stack_slot[j]]]
                 IN  [s EXCEPT !.ctx = dealloc_xmm(c1, i),
                               !.code = @ \o gen_write_back_single(freg, v)]
            ELSE IF mode[1] = "XmmR"
            THEN [s EXCEPT !.ctx = dealloc_xmm(s.ctx, i)]
            ELSE s,
            target, i + 1)

\* the four arms of the second loop that move slot reg from xmm l to xmm r
wb_target_move(s, reg, l, r, kind) ==
    IF l = r
    THEN [s EXCEPT !.ctx.stack_slot[reg] = <<kind, l>>]
    ELSE IF s.ctx.xmm[r] = <<>>
    THEN LET d == dealloc_xmm(s.ctx, reg) IN
         [s EXCEPT !.ctx = IF d.panic THEN d
                           ELSE IF kind = "XmmRW" THEN link_rw_xmm(d, reg, r)
                           ELSE link_r_xmm(d, reg, r),
                   !.code = Append(@, <<"mov", r, l>>)]
    ELSE [s EXCEPT !.ctx = xmm_swap(s.ctx, l, r),
                   !.code = Append(@, <<"swap", l, r>>)]

\* second loop of gen_write_back_for_target
RECURSIVE wb_target_link(_, _, _)
wb_target_link(s, target, i) ==
    IF i \notin DOMAIN target THEN s
    ELSE LET m == s.ctx.stack_slot[i]
             t == target[i]
         IN  wb_target_link(
            IF s.ctx.panic THEN s
            ELSE IF m[1] = "XmmRW" /\ t[1] = "XmmRW"
            THEN wb_target_move(s, i, m[2], t[2], "XmmRW")
            ELSE IF m[1] = "XmmR" /\ t[1] = "XmmRW"
            THEN [wb_target_move(s, i, m[2], t[2], "XmmRW")
                    EXCEPT !.guard_list = Append(@, i)]
            ELSE IF t[1] = "None"
            THEN s
            ELSE IF m[1] = "XmmRW" /\ t[1] = "XmmR"
            THEN wb_target_move(
                    [s EXCEPT !.code = @ \o gen_write_back_single(m[2], <<i>>)],
                    i, m[2], t[2], "XmmR")
            ELSE IF m[1] = "XmmR" /\ t[1] = "XmmR"
            THEN wb_target_move(s, i, m[2], t[2], "XmmR")
            ELSE IF m[1] = "None" /\ t[1] = "XmmR"
            THEN [s EXCEPT !.ctx = link_r_xmm(s.ctx, i, t[2]),
                           !.conv_list = Append(@, <<i, t[2]>>)]
            ELSE [s EXCEPT !.ctx = Panicked(s.ctx)],
            target, i + 1)

\* the source context at the end, the code emitted for the edge, and the
\* lists of conversions and guards that follow it
gen_write_back_for_target(src_ctx, target, pc) ==
    LET s0 == [ctx |-> src_ctx, code |-> <<>>, conv_list |-> <<>>, guard_list |-> <<>>]
        s1 == wb_target_unlink(s0, target, 0)
        s2 == wb_target_link(s1, target, 0)
    IN  [ctx |-> s2.ctx, code |-> s2.code,
         conv_list |-> s2.conv_list, guard_list |-> s2.guard_list]

\* the side exit shared by the conversions and guards of the edge
gen_write_back_for_target_exit(end_ctx, pc) ==
    gen_side_deopt_dest(pc + 1, get_write_back(end_ctx))

(***************************************************************************)
(* Classes and method resolution (Globals)                                 *)
(***************************************************************************)
\* Option<T>: None, or Some(x)
None == <<>>

Some(x) == <<x>>

ClassIds == 1 .. NumClasses

FuncIds == {1, 2}

Names == {"f", "g"}

Arities == {-1, 0, 1}

\* ClassId::super_class; class 1 is the root, class c inherits from c / 2
super_class(class_id) ==
    IF class_id = 1 THEN None ELSE Some(class_id \div 2)

\* ClassStore::get_method
get_method(ms, class_id, name) == ms[class_id][name]

\* ClassStore::add_method
add_method(ms, class_id, name, func_id) ==
    [ms EXCEPT ![class_id][name] = Some(func_id)]

find_method_own_class_only(ms, class_id, name) ==
    get_method(ms, class_id, name)

\* Globals::find_method, on the class of the receiver
RECURSIVE find_method(_, _, _)
find_method(ms, class_id, name) ==
    IF get_method(ms, class_id, name) # None
    THEN get_method(ms, class_id, name)
    ELSE IF super_class(class_id) = None THEN None
    ELSE find_method(ms, super_class(class_id)[1], name)

\* Globals::check_arg: the error it records, None when the arity fits
check_arg(arity, args_len) ==
    IF arity # -1 /\ arity # args_len
    THEN Some("wrong_arguments")
    ELSE None

\* Globals::find_method_checked: the function returned and Globals.error after
find_method_checked(ms, arity, err, class_id, name, args_len) ==
    LET func_id == find_method(ms, class_id, name) IN
    IF func_id = None
    THEN [func |-> None, error |-> Some("method_not_found")]
    ELSE IF check_arg(arity[func_id[1]], args_len) # None
    THEN [func |-> None, error |-> check_arg(arity[func_id[1]], args_len)]
    ELSE [func |-> func_id, error |-> err]

NoMethods == [c \in ClassIds |-> [n \in Names |-> None]]

NoCache == [class |-> 0, version |-> -1, func |-> None, filled_at |-> -1]

NoCall == [made |-> FALSE]

\* the counter a stub starts with
StubCounter == 5

NoRun == [made |-> FALSE]

\* every function has its stub and has not been called
StubIdle ==
    /\ counter = [f \in FuncIds |-> StubCounter]
    /\ stub_entry = [f \in FuncIds |-> "stub"]
    /\ meta = [f \in FuncIds |-> "vm"]
    /\ compiled = [f \in FuncIds |-> None]
    /\ running = NoRun

\* nothing is being decoded
DecodeIdle ==
    /\ bc = <<>>
    /\ bcop = <<>>

\* no invoker runs
InvokeIdle ==
    /\ inv = [pc |-> "idle"]
    /\ mem = <<>>

\* no branch is pending
EdgeIdle ==
    /\ entries = <<>>
    /\ merged = <<>>

NoLoad == [made |-> FALSE]

\* no constant is defined and there is no LoadConst site
ConstIdle ==
    /\ const_version = 0
    /\ const_table = <<>>
    /\ const_site = <<>>
    /\ last_load = NoLoad

AuxIdle == StubIdle /\ DecodeIdle /\ InvokeIdle /\ EdgeIdle /\ ConstIdle

\* no class defines a method and no call site exists
ClassesIdle ==
    /\ methods = NoMethods
    /\ func_arity = [f \in FuncIds |-> -1]
    /\ error = None
    /\ query = <<>>
    /\ found = None
    /\ class_version = 0
    /\ site = <<>>
    /\ cache = NoCache
    /\ snap = None
    /\ bumps = 0
    /\ last_call = NoCall

\* the context the compiler holds, as one record
Ctx == [stack_slot |-> stack_slot, xmm |-> xmm, panic |-> panic]

\* the compiler runs; no generated code does
CompileOnly ==
    UNCHANGED <<rax, xmm0, fpr, loc, stack, r13, code, exit_slots, exit_pc,
                findvars, icvars, auxvars>>

SetCtx(ctx) ==
    \E c \in {ctx} :
        /\ stack_slot' = c.stack_slot
        /\ xmm' = c.xmm
        /\ panic' = c.panic

(***************************************************************************)
(* Values and the packing of floats                                        *)
(*                                                                         *)
(* A Value held in a register or a stack slot is <<"imm", w>> for the      *)
(* immediate word w, or <<"heap_float", b>> for a pointer to a heap        *)
(* allocated Float that holds the f64 with bit pattern b, or               *)
(* <<"heap_obj", k>> for a pointer to any other heap object.               *)
(***************************************************************************)
Imm(w) == <<"imm", w>>

HeapFloat(b) == <<"heap_float", b>>

HeapObj(k) == <<"heap_obj", k>>

\* nil and false; NIL_VALUE | 0x10 = FALSE_VALUE
NIL_VALUE == {2}

FALSE_VALUE == {2, 4}

\* the sentinel for 0.0, Value::new_float(0.0)
FLOAT_ZERO == {63, 1}

\* sign, exponent and fraction of an f64
ExpBits == 52 .. 62

FracBits == 0 .. 51

IsNaN(x) == ExpBits \subseteq x /\ x \cap FracBits # {}

\* ucomisd x, 0.0 sets ZF and clears PF: x is +0.0 or -0.0
IsZeroF64(x) == x \subseteq {63}

\* f64 equality (==): NaN equals nothing, the two zeros are equal
FloatEq(x, y) ==
    /\ ~IsNaN(x)
    /\ ~IsNaN(y)
    /\ (x = y \/ (IsZeroF64(x) /\ IsZeroF64(y)))

\* Value::new_float reached from heap_alloc: a fresh heap Float holding x
Value_new_float(x) == HeapFloat(x)

\* Value::val_tof: the f64 of a heap Float, rax = 0 for anything else
Value_val_tof(v) ==
    IF v[1] = "heap_float" THEN [side_exit |-> FALSE, f |-> v[2]]
    ELSE [side_exit |-> TRUE, f |-> {}]

\* generate_f64_to_val: xmm0 -> rax
f64_to_val(x) ==
    IF IsZeroF64(x) THEN Imm(FLOAT_ZERO)
    ELSE LET rcx == BAnd(Low32(Addq(Shr(x, 60), {0}).sum), {1, 2}) IN
         IF rcx # {2} THEN Value_new_float(x)
         ELSE Imm(BOr(BAnd(Rol(x, 3), BNot({0, 1})), {1}))

heap_to_f64(v) == Value_val_tof(v)

\* gen_val_to_f64_assume_float: rdi -> xmm, or the side exit
gen_val_to_f64_assume_float(v) ==
    IF v[1] # "imm" THEN heap_to_f64(v)
    ELSE LET rdi == v[2] IN
         IF 0 \in rdi THEN [side_exit |-> TRUE, f |-> {}]
         ELSE IF 1 \notin rdi THEN heap_to_f64(v)
         ELSE IF rdi = FLOAT_ZERO THEN [side_exit |-> FALSE, f |-> {}]
         ELSE LET r == Addq(Sar(rdi, 63), {1}).sum IN
              [side_exit |-> FALSE,
               f |-> Rol(BOr(BAnd(rdi, BNot({0, 1})), r), 61)]

\* the registers of a machine on which no generated code has run
MachineIdle ==
    /\ rax = Imm({})
    /\ xmm0 = {}
    /\ fpr = [f \in XmmIdx |-> {}]
    /\ loc = "idle"
    /\ stack = [s \in SlotIds |-> Imm(NIL_VALUE)]
    /\ r13 = 0
    /\ code = <<>>
    /\ exit_slots = [s \in SlotIds |-> LinkNone]
    /\ exit_pc = 0
    /\ ClassesIdle

(***************************************************************************)
(* SpecFloat: a float is packed by f64_to_val and unpacked again           *)
(***************************************************************************)
F64Inputs ==
    {s \cup e \cup m : s \in {{}, {63}}, e \in SUBSET {60, 61, 62},
                       m \in {{}, {0}, {51, 52}, 0 .. 59}}
    \cup {ExpBits, ExpBits \cup {51}, ExpBits \cup {0}, (0 .. 62) \ {52}}

FloatOnly ==
    UNCHANGED <<stack_slot, xmm, panic, stack, r13, code, exit_slots, exit_pc,
                findvars, icvars, auxvars>>

InitFloat ==
    /\ xmm0 \in F64Inputs
    /\ rax = Imm({})
    /\ fpr = [f \in XmmIdx |-> {}]
    /\ loc = "f64_to_val"
    /\ op = <<"start">>
    /\ stack = [s \in SlotIds |-> Imm(NIL_VALUE)]
    /\ r13 = 0
    /\ code = <<>>
    /\ exit_slots = [s \in SlotIds |-> LinkNone]
    /\ exit_pc = 0
    /\ ClassesIdle
    /\ AuxIdle
    /\ stack_slot = BBContext_new(NumSlots).stack_slot
    /\ xmm = BBContext_new(NumSlots).xmm
    /\ panic = FALSE

CallF64ToVal ==
    /\ loc = "f64_to_val"
    /\ rax' = f64_to_val(xmm0)
    /\ loc' = "val_to_f64"
    /\ op' = <<"f64_to_val">>
    /\ UNCHANGED <<xmm0, fpr>>
    /\ FloatOnly

ValToF64 ==
    /\ loc = "val_to_f64"
    /\ LET r == gen_val_to_f64_assume_float(rax) IN
       IF r.side_exit
       THEN loc' = "side_exit" /\ fpr' = fpr
       ELSE loc' = "exit" /\ fpr' = [fpr EXCEPT ![0] = r.f]
    /\ op' = <<"val_to_f64">>
    /\ UNCHANGED <<xmm0, rax>>
    /\ FloatOnly

NextFloat ==
    \/ CallF64ToVal
    \/ ValToF64

SpecFloat == InitFloat /\ [][NextFloat]_vars

\* C9: a float that is not NaN is unpacked to the float that was packed, and
\* a NaN is unpacked to a NaN; the unpacking never takes the side exit
C9_RoundTrip ==
    /\ loc # "side_exit"
    /\ loc = "exit" =>
          IF IsNaN(xmm0) THEN IsNaN(fpr[0]) ELSE FloatEq(fpr[0], xmm0)

(***************************************************************************)
(* SpecFind: one lookup by find_method_checked in any class table          *)
(***************************************************************************)
\* tables in which any class may define f, and the root may define g
MethodTables ==
    {[c \in ClassIds |-> [n \in Names |->
          IF n = "f" THEN col[c] ELSE IF c = 1 THEN g ELSE None]] :
        col \in [ClassIds -> {None} \cup {Some(f) : f \in FuncIds}],
        g \in {None, Some(1)}}

FindOnly == UNCHANGED <<jitvars, icvars, auxvars>>

InitFind ==
    /\ AuxIdle
    /\ methods \in MethodTables
    /\ func_arity \in [FuncIds -> Arities]
    /\ error = None
    /\ query \in {<<c, n, len>> : c \in ClassIds, n \in Names, len \in {0, 1}}
    /\ found = None
    /\ op = <<"start">>
    /\ stack_slot = BBContext_new(NumSlots).stack_slot
    /\ xmm = BBContext_new(NumSlots).xmm
    /\ panic = FALSE
    /\ rax = Imm({})
    /\ xmm0 = {}
    /\ fpr = [f \in XmmIdx |-> {}]
    /\ loc = "idle"
    /\ stack = [s \in SlotIds |-> Imm(NIL_VALUE)]
    /\ r13 = 0
    /\ code = <<>>
    /\ exit_slots = [s \in SlotIds |-> LinkNone]
    /\ exit_pc = 0
    /\ class_version = 0
    /\ site = <<>>
    /\ cache = NoCache
    /\ snap = None
    /\ bumps = 0
    /\ last_call = NoCall

FindMethodChecked ==
    /\ op = <<"start">>
    /\ LET r == find_method_checked(methods, func_arity, error,
                                    query[1], query[2], query[3])
       IN  found' = r.func /\ error' = r.error
    /\ op' = <<"find_method_checked">>
    /\ UNCHANGED <<methods, func_arity, query>>
    /\ FindOnly

NextFind == FindMethodChecked

SpecFind == InitFind /\ [][NextFind]_vars

\* the classes on the superclass chain of class_id, class_id included
RECURSIVE Chain(_)
Chain(class_id) ==
    {class_id} \cup (IF class_id = 1 THEN {} ELSE Chain(class_id \div 2))

\* the classes on the chain of the receiver that define the name
Definers == {c \in Chain(query[1]) : methods[c][query[2]] # None}

\* the definer nearest to the receiver's class: all other definers are on its chain
Nearest == CHOOSE c \in Definers : Definers \subseteq Chain(c)

\* C10: the lookup returns None with method_not_found when no class on the
\* chain defines the name, None with wrong_arguments when the nearest
\* definition has an arity other than -1 and the argument count, and
\* otherwise the function of the nearest class, with no error
C10_FindMethodChecked ==
    op = <<"find_method_checked">> =>
        IF Definers = {}
        THEN found = None /\ error = Some("method_not_found")
        ELSE LET f == methods[Nearest][query[2]][1] IN
             IF func_arity[f] # -1 /\ func_arity[f] # query[3]
             THEN found = None /\ error = Some("wrong_arguments")
             ELSE found = Some(f) /\ error = None

\* a lookup found the method in a superclass although a class that is not
\* on the chain defines another one
C10_Witness ==
    /\ op = <<"find_method_checked">>
    /\ found # None
    /\ methods[query[1]][query[2]] = None
    /\ \E c \in ClassIds \ Chain(query[1]) :
          methods[c][query[2]] # None /\ methods[c][query[2]] # found

(***************************************************************************)
(* SpecIC: calls through one inline-cached call site, interleaved with     *)
(* method definitions that bump the class version                          *)
(*                                                                         *)
(* site = <<kind, self_class>>: kind names the code generated for the      *)
(* site; self_class is the class of self when the receiver is self, and 0  *)
(* when the receiver is another slot.                                      *)
(***************************************************************************)
SiteKinds == {"jit_method_call", "gen_call_not_cached", "vm_method_call", "gen_call_cached"}

RecvIsSelf == site[2] # 0

\* the classes a receiver of the site can have
RecvClasses == IF RecvIsSelf THEN {site[2]} ELSE ClassIds

\* jit_method_call: the class is compared only for a receiver other than self
jit_method_call_hit(c, recv_is_self, r15, version) ==
    /\ (recv_is_self \/ r15 = c.class)
    /\ c.version = version

gen_call_not_cached_hit_any_version(c, r15, version) ==
    r15 = c.class

\* gen_call_not_cached: class guard, then version guard
gen_call_not_cached_hit(c, r15, version) ==
    /\ r15 = c.class
    /\ c.version = version

vm_method_call_hit_any_class(c, r15, version) ==
    c.version = version

\* vm_method_call: [r13 - 8] is the class, [r13 - 4] the version
vm_method_call_hit(c, r15, version) ==
    /\ r15 = c.class
    /\ c.version = version

\* gen_call_cached: guard_class (not for self) and guard_version, else deopt
gen_call_cached_guards(c, recv_is_self, r15, version) ==
    /\ (recv_is_self \/ r15 = c.class)
    /\ version = c.version

\* the cache is rewritten before the result of the lookup is tested
slow_path_patch_first(c, keep_class, r15, recv_class) ==
    LET r == find_method_checked(methods, func_arity, error, recv_class, "f", 0) IN
    [cache |-> [class |-> IF keep_class THEN c.class ELSE r15,
                version |-> class_version,
                func |-> r.func,
                filled_at |-> bumps],
     func |-> r.func, error |-> r.error]

\* the slow path of a site: entry_find_method, then the cache is rewritten
\* unless the lookup failed; keep_class tells that cached_recv_class is kept
slow_path(c, keep_class, r15, recv_class) ==
    LET r == find_method_checked(methods, func_arity, error, recv_class, "f", 0) IN
    IF r.func = None
    THEN [cache |-> c, func |-> None, error |-> r.error]
    ELSE [cache |-> [class |-> IF keep_class THEN c.class ELSE r15,
                     version |-> class_version,
                     func |-> r.func,
                     filled_at |-> bumps],
          func |-> r.func, error |-> r.error]

\* what find_method_checked returns for the receiver now
Resolved(recv_class) ==
    find_method_checked(methods, func_arity, error, recv_class, "f", 0).func

ICOnly == UNCHANGED <<jitvars, func_arity, query, found, auxvars>>

InitIC ==
    /\ AuxIdle
    /\ site \in {<<k, sc>> : k \in SiteKinds, sc \in {0} \cup ClassIds}
    /\ methods = NoMethods
    /\ func_arity = [f \in FuncIds |-> -1]
    /\ error = None
    /\ query = <<>>
    /\ found = None
    /\ class_version = 0
    /\ cache = NoCache
    /\ snap = None
    /\ bumps = 0
    /\ last_call = NoCall
    /\ op = <<"start">>
    /\ stack_slot = BBContext_new(NumSlots).stack_slot
    /\ xmm = BBContext_new(NumSlots).xmm
    /\ panic = FALSE
    /\ rax = Imm({})
    /\ xmm0 = {}
    /\ fpr = [f \in XmmIdx |-> {}]
    /\ loc = "idle"
    /\ stack = [s \in SlotIds |-> Imm(NIL_VALUE)]
    /\ r13 = 0
    /\ code = <<>>
    /\ exit_slots = [s \in SlotIds |-> LinkNone]
    /\ exit_pc = 0

\* MethodDef: addq [class_version], 1, then define_method
MethodDef ==
    \E c \in ClassIds, f \in FuncIds :
        /\ bumps < MaxBumps
        /\ class_version' = class_version + 1
        /\ bumps' = bumps + 1
        /\ methods' = add_method(methods, c, "f", f)
        /\ op' = <<"MethodDef">>
        /\ UNCHANGED <<site, cache, snap, last_call, error>>
        /\ ICOnly

\* define_attr_reader, define_attr_writer: add_method, then class_version_inc
DefineAttr ==
    \E c \in ClassIds, f \in FuncIds :
        /\ bumps < MaxBumps
        /\ methods' = add_method(methods, c, "f", f)
        /\ class_version' = class_version + 1
        /\ bumps' = bumps + 1
        /\ op' = <<"define_attr">>
        /\ UNCHANGED <<site, cache, snap, last_call, error>>
        /\ ICOnly

\* the record of a call: the receiver's class, whether the cached target was
\* used, the target called (None: vm_return with an error), the cache entry
\* the decision was made on, and what a lookup at the call would return
CallRecord(recv_class, hit, func, entry) ==
    [made |-> TRUE, self |-> RecvIsSelf, recv_class |-> recv_class, hit |-> hit,
     func |-> func, entry |-> entry, version |-> class_version, bumps |-> bumps,
     resolved |-> Resolved(recv_class)]

\* the call made by the fast path or after the slow path
CallThrough(hit, keep_class, recv_class) ==
    IF hit
    THEN /\ last_call' = CallRecord(recv_class, TRUE, cache.func, cache)
         /\ UNCHANGED <<cache, error>>
    ELSE LET r == slow_path(cache, keep_class, recv_class, recv_class) IN
         /\ cache' = r.cache
         /\ error' = r.error
         /\ last_call' = CallRecord(recv_class, FALSE, r.func, cache)

CallJitMethodCall ==
    \E recv_class \in RecvClasses :
        /\ site[1] = "jit_method_call"
        /\ CallThrough(jit_method_call_hit(cache, RecvIsSelf, recv_class, class_version),
                       RecvIsSelf, recv_class)
        /\ op' = <<"call">>
        /\ UNCHANGED <<methods, class_version, bumps, site, snap>>
        /\ ICOnly

CallNotCached ==
    \E recv_class \in RecvClasses :
        /\ site[1] = "gen_call_not_cached"
        /\ CallThrough(gen_call_not_cached_hit(cache, recv_class, class_version),
                       FALSE, recv_class)
        /\ op' = <<"call">>
        /\ UNCHANGED <<methods, class_version, bumps, site, snap>>
        /\ ICOnly

CallVm ==
    \E recv_class \in RecvClasses :
        /\ site[1] \in {"vm_method_call", "gen_call_cached"}
        /\ snap = None
        /\ CallThrough(vm_method_call_hit(cache, recv_class, class_version),
                       FALSE, recv_class)
        /\ op' = <<"call">>
        /\ UNCHANGED <<methods, class_version, bumps, site, snap>>
        /\ ICOnly

\* the JIT compiles the call for the entry the interpreter has cached
CompileCached ==
    /\ site[1] = "gen_call_cached"
    /\ cache.func # None
    /\ ~(RecvIsSelf /\ site[2] # cache.class)
    /\ snap' = Some(cache)
    /\ op' = <<"compile">>
    /\ UNCHANGED <<methods, class_version, bumps, site, cache, last_call, error>>
    /\ ICOnly

\* the compiled call: the guards pass and the cached function is called, or
\* the side exit hands the call to the interpreter
CallCached ==
    \E recv_class \in RecvClasses :
        /\ site[1] = "gen_call_cached"
        /\ snap # None
        /\ IF gen_call_cached_guards(snap[1], RecvIsSelf, recv_class, class_version)
           THEN /\ last_call' = CallRecord(recv_class, TRUE, snap[1].func, snap[1])
                /\ UNCHANGED <<cache, error>>
           ELSE CallThrough(vm_method_call_hit(cache, recv_class, class_version),
                            FALSE, recv_class)
        /\ op' = <<"call">>
        /\ UNCHANGED <<methods, class_version, bumps, site, snap>>
        /\ ICOnly

NextIC ==
    \/ MethodDef
    \/ DefineAttr
    \/ CallJitMethodCall
    \/ CallNotCached
    \/ CallVm
    \/ CompileCached
    \/ CallCached

SpecIC == InitIC /\ [][NextIC]_vars

\* the guards of the site, evaluated on cache entry c
SiteHit(c, recv_class, version) ==
    CASE site[1] = "jit_method_call" ->
            jit_method_call_hit(c, RecvIsSelf, recv_class, version)
      [] site[1] = "gen_call_not_cached" ->
            gen_call_not_cached_hit(c, recv_class, version)
      [] OTHER -> vm_method_call_hit(c, recv_class, version)

\* C25: a call whose lookup on the slow path returns null ends at vm_return
\* with the cache fields of the site and the compiled entry unchanged, and the
\* guards of the site still fail for that receiver and class version
C25_NullLeavesCache ==
    [][(op' = <<"call">> /\ last_call'.func = None) =>
          /\ ~last_call'.hit
          /\ cache' = cache
          /\ snap' = snap
          /\ ~SiteHit(cache', last_call'.recv_class, class_version')]_vars

\* a site whose cache was filled has then run a call that ended at vm_return
C25_Witness ==
    /\ op = <<"call">>
    /\ last_call.made
    /\ last_call.func = None
    /\ ~last_call.hit
    /\ cache.func # None
    /\ cache = last_call.entry

\* C3: a call that used a cached target used one cached after the last bump
\* of the class version; every other call looked the method up and called
\* what the lookup returned
C3_NoStaleTarget ==
    last_call.made =>
        IF last_call.hit
        THEN last_call.entry.filled_at = last_call.bumps
        ELSE last_call.func = last_call.resolved

\* a call after a bump found the cache filled before the bump and looked up again
C3_Witness ==
    /\ last_call.made
    /\ ~last_call.hit
    /\ last_call.entry.func # None
    /\ last_call.entry.filled_at < last_call.bumps
    /\ last_call.func # None
    /\ last_call.func # last_call.entry.func

\* C4: at a site whose receiver is not self the cached target is used only
\* when the receiver's class is the cached class and the cached version is
\* the global version, and the function called is the one find_method
\* returns for the class of the receiver
C4_ClassAndVersion ==
    (last_call.made /\ ~last_call.self) =>
        /\ last_call.hit =>
              /\ last_call.entry.class = last_call.recv_class
              /\ last_call.entry.version = last_call.version
        /\ last_call.func = last_call.resolved

\* a receiver of another class missed the cache although the version was
\* current, and the method of its own class was called
C4_Witness ==
    /\ last_call.made
    /\ ~last_call.self
    /\ ~last_call.hit
    /\ last_call.entry.func # None
    /\ last_call.entry.version = last_call.version
    /\ last_call.entry.class # last_call.recv_class
    /\ last_call.func # None
    /\ last_call.func # last_call.entry.func

(***************************************************************************)
(* SpecDeopt: a basic block is compiled and its code runs in step with the *)
(* compiler; a guard that fails, or a fallback, runs a side exit           *)
(***************************************************************************)
\* the float computed by the generated code, 1.0; registers start as 0.0
DeoptFloats == {52 .. 61}

BcPcs == {1}

InitDeopt ==
    /\ stack_slot = BBContext_new(NumSlots).stack_slot
    /\ xmm = BBContext_new(NumSlots).xmm
    /\ panic = FALSE
    /\ op = <<"new">>
    /\ rax = Imm({})
    /\ xmm0 = {}
    /\ fpr = [f \in XmmIdx |-> {}]
    /\ loc = "jit"
    /\ stack = [s \in SlotIds |-> Imm(NIL_VALUE)]
    /\ r13 = 0
    /\ code = <<>>
    /\ exit_slots = [s \in SlotIds |-> LinkNone]
    /\ exit_pc = 0
    /\ ClassesIdle
    /\ AuxIdle

NoExit == UNCHANGED <<r13, code, exit_slots, exit_pc, loc>>

DeoptOnly == UNCHANGED <<findvars, icvars, auxvars>>

\* control enters the side exit built by gen_side_deopt_dest(pc, wb) for ctx
EnterSideExit(ctx, pc) ==
    /\ code' = gen_side_deopt_dest(pc, get_write_back(ctx))
    /\ exit_slots' = ctx.stack_slot
    /\ exit_pc' = pc
    /\ loc' = "side_exit"
    /\ r13' = r13

\* a float instruction computes x into the register xmm_write gives to dst
JitFloatWrite ==
    \E dst \in SlotIds, x \in DeoptFloats :
        /\ loc = "jit" /\ ~panic
        /\ LET r == xmm_write(Ctx, dst) IN
           /\ SetCtx(r.ctx)
           /\ fpr' = IF r.ctx.panic THEN fpr ELSE [fpr EXCEPT ![r.freg] = x]
        /\ op' = op
        /\ DeoptOnly
        /\ UNCHANGED <<rax, xmm0, stack>>
        /\ NoExit

\* Mov: copy_slot, with the stack copy it emits for an unlinked source
JitCopySlot ==
    \E src \in SlotIds, dst \in SlotIds :
        /\ loc = "jit" /\ ~panic
        /\ LET r == copy_slot(Ctx, src, dst) IN
           /\ SetCtx(r.ctx)
           /\ IF r.copied
              THEN rax' = stack[src] /\ stack' = [stack EXCEPT ![dst] = stack[src]]
              ELSE UNCHANGED <<rax, stack>>
        /\ op' = op
        /\ DeoptOnly
        /\ UNCHANGED <<xmm0, fpr>>
        /\ NoExit

\* write_back_slot, with the conversion and the store it emits
JitWriteBackSlot ==
    \E reg \in SlotIds :
        /\ loc = "jit" /\ ~panic
        /\ LET r == write_back_slot(Ctx, reg) IN
           /\ SetCtx(r.ctx)
           /\ IF r.stored
              THEN LET freg == stack_slot[reg][2] IN
                   /\ xmm0' = fpr[freg]
                   /\ rax' = f64_to_val(fpr[freg])
                   /\ stack' = [stack EXCEPT ![reg] = f64_to_val(fpr[freg])]
              ELSE UNCHANGED <<xmm0, rax, stack>>
        /\ op' = op
        /\ DeoptOnly
        /\ UNCHANGED fpr
        /\ NoExit

\* an instruction that stores a Value to its destination: the slot is
\* unlinked (dealloc_xmm) and rax is stored
JitStore ==
    \E dst \in SlotIds, v \in {Imm(NIL_VALUE)} \cup {f64_to_val(x) : x \in DeoptFloats} :
        /\ loc = "jit" /\ ~panic
        /\ SetCtx(dealloc_xmm(Ctx, dst))
        /\ rax' = v
        /\ stack' = [stack EXCEPT ![dst] = v]
        /\ op' = op
        /\ DeoptOnly
        /\ UNCHANGED <<xmm0, fpr>>
        /\ NoExit

\* xmm_read_assume_float: a linked slot is read from its register; an unlinked
\* one is linked for reading, loaded and converted, or the guard fails
JitReadFloat ==
    \E reg \in SlotIds, pc \in BcPcs :
        /\ loc = "jit" /\ ~panic
        /\ IF IsLinked(stack_slot[reg])
           THEN UNCHANGED <<bbvars, fpr, rax, xmm0, stack>> /\ NoExit
           ELSE LET r == alloc_xmm_read(Ctx, reg)
                    f == gen_val_to_f64_assume_float(stack[reg])
                IN  /\ SetCtx(r.ctx)
                    /\ UNCHANGED <<rax, xmm0, stack>>
                    /\ IF r.ctx.panic THEN UNCHANGED fpr /\ NoExit
                       ELSE IF f.side_exit
                       THEN UNCHANGED fpr /\ EnterSideExit(r.ctx, pc)
                       ELSE fpr' = [fpr EXCEPT ![r.freg] = f.f] /\ NoExit
        /\ op' = op
        /\ DeoptOnly

\* deopt: fall back to the interpreter
JitDeopt ==
    \E pc \in BcPcs :
        /\ loc = "jit" /\ ~panic
        /\ EnterSideExit(Ctx, pc)
        /\ op' = op
        /\ DeoptOnly
        /\ UNCHANGED <<bbvars, rax, xmm0, fpr, stack>>

\* the side exit converts a register and stores it to the slots of v
ExitWriteBack ==
    /\ loc = "side_exit" /\ code # <<>> /\ Head(code)[1] = "wb"
    /\ LET freg == Head(code)[2]
           v == Head(code)[3]
       IN  /\ xmm0' = fpr[freg]
           /\ rax' = f64_to_val(fpr[freg])
           /\ stack' = [s \in SlotIds |->
                          IF Contains(v, s) THEN f64_to_val(fpr[freg]) ELSE stack[s]]
    /\ code' = Tail(code)
    /\ op' = op
    /\ DeoptOnly
    /\ UNCHANGED <<bbvars, fpr, r13, loc, exit_slots, exit_pc>>

ExitSetPc ==
    /\ loc = "side_exit" /\ code # <<>> /\ Head(code)[1] = "set_pc"
    /\ r13' = Head(code)[2]
    /\ code' = Tail(code)
    /\ op' = op
    /\ DeoptOnly
    /\ UNCHANGED <<bbvars, rax, xmm0, fpr, stack, loc, exit_slots, exit_pc>>

ExitJmpFetch ==
    /\ loc = "side_exit" /\ code # <<>> /\ Head(code)[1] = "jmp_fetch"
    /\ loc' = "vm_fetch"
    /\ code' = Tail(code)
    /\ op' = op
    /\ DeoptOnly
    /\ UNCHANGED <<bbvars, rax, xmm0, fpr, stack, r13, exit_slots, exit_pc>>

NextDeopt ==
    \/ JitFloatWrite
    \/ JitCopySlot
    \/ JitWriteBackSlot
    \/ JitStore
    \/ JitReadFloat
    \/ JitDeopt
    \/ ExitWriteBack
    \/ ExitSetPc
    \/ ExitJmpFetch

SpecDeopt == InitDeopt /\ [][NextDeopt]_vars

\* the side exit has set r13, or has reached vm_fetch
PcIsSet ==
    \/ loc = "vm_fetch"
    \/ loc = "side_exit" /\ \A k \in 1 .. Len(code) : code[k][1] # "set_pc"

\* C2: in a side exit, once r13 holds the recorded pc every slot that was
\* XmmRW at the exit point holds f64_to_val of its register; r13 is set
\* before the jump to vm_fetch
C2_WriteBackBeforePc ==
    /\ PcIsSet =>
          /\ r13 = exit_pc
          /\ \A s \in SlotIds :
                exit_slots[s][1] = "XmmRW" =>
                    stack[s] = f64_to_val(fpr[exit_slots[s][2]])
    /\ (loc = "side_exit" /\ ~PcIsSet) => r13 # exit_pc

\* a side exit with two XmmRW slots has reached vm_fetch
C2_Witness ==
    /\ loc = "vm_fetch"
    /\ Cardinality({s \in SlotIds : exit_slots[s][1] = "XmmRW"}) = 2
    /\ \E s \in SlotIds : exit_slots[s][1] = "XmmRW" /\ fpr[exit_slots[s][2]] \in DeoptFloats

\* the write-back instructions still to run in the side exit store to slot s
WbPending(c, s) ==
    \E k \in 1 .. Len(c) : c[k][1] = "wb" /\ Contains(c[k][3], s)

InitBB ==
    /\ \E ctx \in {BBContext_new(NumSlots)} \cup {BBContext_from(si) : si \in StackSlotInfos} :
          /\ stack_slot = ctx.stack_slot
          /\ xmm = ctx.xmm
          /\ panic = ctx.panic
    /\ op = <<"new">>
    /\ MachineIdle
    /\ AuxIdle

BBLinkRW ==
    \E reg \in SlotIds, freg \in InputRegs :
        /\ ~panic
        /\ stack_slot[reg] = LinkNone
        /\ SetCtx(link_rw_xmm(Ctx, reg, freg))
        /\ op' = <<"link_rw_xmm">>
        /\ CompileOnly

BBLinkR ==
    \E reg \in SlotIds, freg \in InputRegs :
        /\ ~panic
        /\ stack_slot[reg] = LinkNone
        /\ SetCtx(link_r_xmm(Ctx, reg, freg))
        /\ op' = <<"link_r_xmm">>
        /\ CompileOnly

BBDealloc ==
    \E reg \in SlotIds :
        /\ ~panic
        /\ SetCtx(dealloc_xmm(Ctx, reg))
        /\ op' = <<"dealloc_xmm">>
        /\ CompileOnly

BBSwap ==
    \E l \in InputRegs, r \in InputRegs :
        /\ ~panic
        /\ SetCtx(xmm_swap(Ctx, l, r))
        /\ op' = <<"xmm_swap">>
        /\ CompileOnly

BBXmmWrite ==
    \E reg \in SlotIds :
        /\ ~panic
        /\ SetCtx(xmm_write(Ctx, reg).ctx)
        /\ op' = <<"xmm_write">>
        /\ CompileOnly

BBAllocXmmRead ==
    \E reg \in SlotIds :
        /\ ~panic
        /\ SetCtx(alloc_xmm_read(Ctx, reg).ctx)
        /\ op' = <<"alloc_xmm_read">>
        /\ CompileOnly

BBCopySlot ==
    \E src \in SlotIds, dst \in SlotIds :
        /\ ~panic
        /\ SetCtx(copy_slot(Ctx, src, dst).ctx)
        /\ op' = <<"copy_slot">>
        /\ CompileOnly

BBWriteBackSlot ==
    \E reg \in SlotIds :
        /\ ~panic
        /\ SetCtx(write_back_slot(Ctx, reg).ctx)
        /\ op' = <<"write_back_slot">>
        /\ CompileOnly

BBWriteBackForTarget ==
    \E target \in StackSlotInfos :
        /\ ~panic
        /\ SetCtx(gen_write_back_for_target(Ctx, target, 0).ctx)
        /\ op' = <<"gen_write_back_for_target">>
        /\ CompileOnly

NextBB ==
    \/ BBLinkRW
    \/ BBLinkR
    \/ BBDealloc
    \/ BBSwap
    \/ BBXmmWrite
    \/ BBAllocXmmRead
    \/ BBCopySlot
    \/ BBWriteBackSlot
    \/ BBWriteBackForTarget

SpecBB == InitBB /\ [][NextBB]_vars

\* C1: every slot linked to a register is in that register's list, and every
\* member of a register's list is linked to that register
C1_LinkConsistent ==
    ~panic =>
        /\ \A s \in SlotIds :
              IsLinked(stack_slot[s]) => Contains(xmm[stack_slot[s][2]], s)
        /\ \A f \in XmmIdx : \A k \in 1 .. Len(xmm[f]) :
              /\ IsLinked(stack_slot[xmm[f][k]])
              /\ stack_slot[xmm[f][k]][2] = f

\* a copy has made two slots share one register
C1_Witness ==
    /\ op = <<"copy_slot">>
    /\ ~panic
    /\ \E f \in XmmIdx : Len(xmm[f]) = 2

store_rax(ret) == << <<"store_rax", ret>> >>

\* if !ret.is_zero() { self.store_rax(ret) }
store_rax_if_nonzero(ret) == IF ret = 0 THEN <<>> ELSE store_rax(ret)

handle_error(pc) == << <<"set_pc", pc + 1>>, <<"test_jeq">> >>

call_binop(func) == << <<"call", func>> >>

generic_binop(ret, func, pc) ==
    << <<"set_pc", pc + 1>> >> \o call_binop(func) \o store_rax(ret)

jit_get_constant(pc) == << <<"call", "get_constant">> >> \o handle_error(pc)

\* the slow path of load_constant
load_constant(dst, pc) == jit_get_constant(pc) \o store_rax(dst)

jit_get_index(ret, pc) ==
    << <<"call", "get_index">> >> \o handle_error(pc) \o store_rax(ret)

jit_index_assign(pc) == << <<"call", "set_index">> >> \o handle_error(pc)

\* the slow path (entry_find_method) and the call of the resolved method
jit_method_call(ret, pc) ==
    << <<"call", "entry_find_method">>, <<"test_jeq">>,
       <<"call", "callee">>, <<"test_jeq">> >> \o store_rax_if_nonzero(ret)

gen_call_not_cached(ret, pc) ==
    << <<"call", "entry_find_method">>, <<"test_jeq">>,
       <<"call", "callee">>, <<"test_jeq">> >> \o store_rax_if_nonzero(ret)

native_call(ret, pc) ==
    << <<"call", "native">> >> \o handle_error(pc) \o store_rax_if_nonzero(ret)

method_call_cached(ret, pc) ==
    << <<"call", "callee">> >> \o handle_error(pc) \o store_rax_if_nonzero(ret)

gen_yield(ret, pc) ==
    << <<"call", "block">> >> \o handle_error(pc) \o store_rax_if_nonzero(ret)

\* vm_method_call and vm_yield: the call, the test, vm_store_r15_if_nonzero
vm_method_call(ret) ==
    << <<"call", "callee">>, <<"test_jeq">> >> \o store_rax_if_nonzero(ret)

RuntimeSites ==
    {"generic_binop", "load_constant", "jit_get_index",
     "jit_index_assign", "jit_method_call", "gen_call_not_cached", "native_call",
     "method_call_cached", "gen_yield", "vm_method_call"}

SiteCode(k, ret, pc) ==
    CASE k = "generic_binop" -> generic_binop(ret, "div_values", pc)
      [] k = "load_constant" -> load_constant(ret, pc)
      [] k = "jit_get_index" -> jit_get_index(ret, pc)
      [] k = "jit_index_assign" -> jit_index_assign(pc)
      [] k = "jit_method_call" -> jit_method_call(ret, pc)
      [] k = "gen_call_not_cached" -> gen_call_not_cached(ret, pc)
      [] k = "native_call" -> native_call(ret, pc)
      [] k = "method_call_cached" -> method_call_cached(ret, pc)
      [] k = "gen_yield" -> gen_yield(ret, pc)
      [] OTHER -> vm_method_call(ret)

\* what a runtime call can return in rax: None is 0
RuntimeResults == {Imm({}), Imm(NIL_VALUE), Imm({0, 1})}

ErrOnly ==
    UNCHANGED <<stack_slot, xmm, panic, xmm0, fpr, exit_slots, exit_pc,
                methods, func_arity, query, found, icvars, auxvars>>

InitErr ==
    /\ \E k \in RuntimeSites, ret \in SlotIds :
          /\ code = SiteCode(k, ret, 1)
          /\ op = <<k, ret>>
    /\ loc = "jit"
    /\ rax = Imm(NIL_VALUE)
    /\ xmm0 = {}
    /\ fpr = [f \in XmmIdx |-> {}]
    /\ stack = [s \in SlotIds |-> Imm(NIL_VALUE)]
    /\ r13 = 0
    /\ exit_slots = [s \in SlotIds |-> LinkNone]
    /\ exit_pc = 0
    /\ ClassesIdle
    /\ AuxIdle
    /\ stack_slot = BBContext_new(NumSlots).stack_slot
    /\ xmm = BBContext_new(NumSlots).xmm
    /\ panic = FALSE

\* the end of the emitted code: the next instruction is fetched
Advance ==
    /\ code' = Tail(code)
    /\ loc' = IF Len(code) = 1 THEN "next" ELSE loc

\* call: the callee returns Some(v), or sets the error and returns None
ErrCall ==
    \E v \in RuntimeResults :
        /\ loc = "jit" /\ code # <<>> /\ Head(code)[1] = "call"
        /\ rax' = v
        /\ error' = IF v = Imm({}) THEN Some(Head(code)[2]) ELSE error
        /\ Advance
        /\ UNCHANGED <<stack, r13, op>>
        /\ ErrOnly

ErrSetPc ==
    /\ loc = "jit" /\ code # <<>> /\ Head(code)[1] = "set_pc"
    /\ r13' = Head(code)[2]
    /\ Advance
    /\ UNCHANGED <<rax, stack, error, op>>
    /\ ErrOnly

\* testq rax, rax; jeq vm_return
ErrTestJeq ==
    /\ loc = "jit" /\ code # <<>> /\ Head(code)[1] = "test_jeq"
    /\ IF rax = Imm({})
       THEN loc' = "vm_return" /\ code' = <<>>
       ELSE Advance
    /\ UNCHANGED <<rax, stack, r13, error, op>>
    /\ ErrOnly

ErrStoreRax ==
    /\ loc = "jit" /\ code # <<>> /\ Head(code)[1] = "store_rax"
    /\ stack' = [stack EXCEPT ![Head(code)[2]] = rax]
    /\ Advance
    /\ UNCHANGED <<rax, r13, error, op>>
    /\ ErrOnly

NextErr ==
    \/ ErrCall
    \/ ErrSetPc
    \/ ErrTestJeq
    \/ ErrStoreRax

SpecErr == InitErr /\ [][NextErr]_vars

\* C5: once a runtime call has returned None the generated code is at
\* vm_return or about to test rax, and no slot has been stored to
C5_NoneGoesToVmReturn ==
    error # None =>
        /\ stack = [s \in SlotIds |-> Imm(NIL_VALUE)]
        /\ \/ loc = "vm_return"
           \/ loc = "jit" /\ code # <<>> /\ Head(code)[1] \in {"set_pc", "test_jeq"}


(***************************************************************************)
(* SpecBr: instructions that load and store slots, then a conditional      *)
(* branch                                                                  *)
(***************************************************************************)
TRUE_VALUE == {2, 3, 4}

\* the word of a Value: a heap object is an 8-byte aligned address
Value_get(v) ==
    IF v[1] = "imm" THEN v[2]
    ELSE IF v[1] = "heap_obj" THEN Shl(W(v[2]), 3) \cup {32}
    ELSE {3, 4, 33}

\* the literals of Const: true, false, 0, 1, "" and []
Literals ==
    {Imm(TRUE_VALUE), Imm(FALSE_VALUE), Imm({0}), Imm({0, 1}), HeapObj(1), HeapObj(2)}

\* orq rax, 0x10; cmpq rax, (FALSE_VALUE): the zero flag
or_cmp_false(w) == BOr(w, {4}) = FALSE_VALUE

\* CondBr: movq rax, [slot]; orq; cmpq; jne dest
CondBr(rax_in, slot) ==
    LET w == Value_get(slot) IN
    [rax |-> BOr(w, {4}), taken |-> ~or_cmp_false(w)]

\* CondNotBr: cmpq rax, [slot]; orq; cmpq; jeq dest
CondNotBr(rax_in, slot) ==
    LET w == Value_get(rax_in) IN
    [rax |-> BOr(w, {4}), taken |-> or_cmp_false(w)]

BrOnly ==
    UNCHANGED <<stack_slot, xmm, panic, xmm0, fpr, r13, code, exit_slots, exit_pc,
                findvars, icvars, auxvars>>

InitBr ==
    /\ loc = "jit"
    /\ op = <<"start">>
    /\ rax = Imm({})
    /\ xmm0 = {}
    /\ fpr = [f \in XmmIdx |-> {}]
    /\ stack = [s \in SlotIds |-> Imm(NIL_VALUE)]
    /\ r13 = 0
    /\ code = <<>>
    /\ exit_slots = [s \in SlotIds |-> LinkNone]
    /\ exit_pc = 0
    /\ ClassesIdle
    /\ AuxIdle
    /\ stack_slot = BBContext_new(NumSlots).stack_slot
    /\ xmm = BBContext_new(NumSlots).xmm
    /\ panic = FALSE

\* Const(ret, id): movq rax, (v.get()); movq [ret], rax
OpConst ==
    \E ret \in SlotIds, v \in Literals :
        /\ loc = "jit"
        /\ rax' = v
        /\ stack' = [stack EXCEPT ![ret] = v]
        /\ op' = <<"Const">>
        /\ UNCHANGED loc
        /\ BrOnly

\* Nil(ret): movq rax, (NIL_VALUE); movq [ret], rax
OpNil ==
    \E ret \in SlotIds :
        /\ loc = "jit"
        /\ rax' = Imm(NIL_VALUE)
        /\ stack' = [stack EXCEPT ![ret] = Imm(NIL_VALUE)]
        /\ op' = <<"Nil">>
        /\ UNCHANGED loc
        /\ BrOnly

\* Mov(dst, src): movq rax, [src]; movq [dst], rax
OpMov ==
    \E dst \in SlotIds, src \in SlotIds :
        /\ loc = "jit"
        /\ rax' = stack[src]
        /\ stack' = [stack EXCEPT ![dst] = stack[src]]
        /\ op' = <<"Mov">>
        /\ UNCHANGED loc
        /\ BrOnly

OpCondBr ==
    \E cond_ \in SlotIds :
        /\ loc = "jit"
        /\ LET r == CondBr(rax, stack[cond_]) IN
           /\ rax' = Imm(r.rax)
           /\ loc' = IF r.taken THEN "dest" ELSE "next"
        /\ op' = <<"CondBr", cond_>>
        /\ UNCHANGED stack
        /\ BrOnly

OpCondNotBr ==
    \E cond_ \in SlotIds :
        /\ loc = "jit"
        /\ LET r == CondNotBr(rax, stack[cond_]) IN
           /\ rax' = Imm(r.rax)
           /\ loc' = IF r.taken THEN "dest" ELSE "next"
        /\ op' = <<"CondNotBr", cond_>>
        /\ UNCHANGED stack
        /\ BrOnly

NextBr ==
    \/ OpConst
    \/ OpNil
    \/ OpMov
    \/ OpCondBr
    \/ OpCondNotBr

SpecBr == InitBr /\ [][NextBr]_vars

\* C8: CondBr jumps iff the value v of its condition slot has
\* (v | 0x10) # FALSE_VALUE, and CondNotBr jumps iff (v | 0x10) = FALSE_VALUE
C8_BranchOnSlot ==
    /\ op[1] = "CondBr" =>
          ((loc = "dest") <=> BOr(Value_get(stack[op[2]]), {4}) # FALSE_VALUE)
    /\ op[1] = "CondNotBr" =>
          ((loc = "dest") <=> BOr(Value_get(stack[op[2]]), {4}) = FALSE_VALUE)


(***************************************************************************)
(* SpecArith: the fast paths of Add and Sub on fixnum operands             *)
(*                                                                         *)
(* A fixnum n is the word (n << 1) | 1.  An operand of the model is the    *)
(* 64-bit word of an i63 integer, sign extended.                           *)
(***************************************************************************)
\* Value::int32(n).get(), Value::new_integer(n).get()
Value_int32(n) == BOr(Shl(n, 1), {0})

I63_MAX == 0 .. 61

I63_MIN == {62, 63}

\* i63 integers: MIN, MIN + 1, -2, -1, 0, 1, 2, MAX - 1, MAX
Fixnums ==
    {I63_MIN, I63_MIN \cup {0}, Bit \ {0}, Bit, {}, {0}, {1}, I63_MAX \ {0}, I63_MAX}

\* i16 immediates: -32768, -1, 0, 1, 32767
Imm16s == {15 .. 63, Bit, {}, {0}, 0 .. 14}

BinOpModes == {"RR", "RI", "IR"}

\* jo is dropped from the fast paths
gen_binop_integer_no_jo(kind, mode, lhs, rhs) ==
    LET rdi == Value_int32(lhs)
        rsi == Value_int32(rhs) IN
    IF kind = "Add"
    THEN [deopt |-> FALSE, ret |-> Addq(Subq(rdi, {0}).sum, rsi).sum]
    ELSE [deopt |-> FALSE, ret |-> Addq(Subq(rdi, rsi).sum, {0}).sum]

\* gen_binop_integer for Add and Sub: lhs and rhs are the integers held by
\* the slots or given as immediates; deopt tells that jo deopt is taken,
\* ret is the word stored to the slot ret
gen_binop_integer(kind, mode, lhs, rhs) ==
    LET rdi == Value_int32(lhs)
        rsi == Value_int32(rhs) IN
    IF kind = "Add"
    THEN IF mode = "RR"
         THEN LET r == Addq(Subq(rdi, {0}).sum, rsi) IN
              [deopt |-> r.of, ret |-> r.sum]
         ELSE IF mode = "RI"
         THEN LET r == Addq(rdi, Subq(Value_int32(rhs), {0}).sum) IN
              [deopt |-> r.of, ret |-> r.sum]
         ELSE LET r == Addq(rsi, Subq(Value_int32(lhs), {0}).sum) IN
              [deopt |-> r.of, ret |-> r.sum]
    ELSE IF mode = "RI"
         THEN LET r == Subq(rdi, Subq(Value_int32(rhs), {0}).sum) IN
              [deopt |-> r.of, ret |-> r.sum]
         ELSE LET r == Subq(rdi, rsi) IN
              [deopt |-> r.of, ret |-> Addq(r.sum, {0}).sum]

\* fast_add: rax <- rdi - 1 + rsi; jo generic
fast_add(rdi, rsi) ==
    LET r == Addq(Subq(rdi, {0}).sum, rsi) IN
    [generic |-> r.of, ret |-> r.sum]

\* fast_sub: rax <- rdi - rsi; jo generic; rax <- rax + 1
fast_sub(rdi, rsi) ==
    LET r == Subq(rdi, rsi) IN
    [generic |-> r.of, ret |-> Addq(r.sum, {0}).sum]

ArithOnly ==
    UNCHANGED <<stack_slot, xmm, panic, xmm0, fpr, r13, code, exit_slots, exit_pc,
                findvars, icvars, auxvars>>

\* op holds the instruction: its kind, its mode and its two operands
InitArith ==
    /\ \E kind \in {"Add", "Sub"}, mode \in BinOpModes \cup {"fast"} :
          \E lhs \in IF mode = "IR" THEN Imm16s ELSE Fixnums,
             rhs \in IF mode = "RI" THEN Imm16s ELSE Fixnums :
              op = <<kind, mode, lhs, rhs>>
    /\ loc = "jit"
    /\ rax = Imm({})
    /\ xmm0 = {}
    /\ fpr = [f \in XmmIdx |-> {}]
    /\ stack = [s \in SlotIds |-> Imm(NIL_VALUE)]
    /\ r13 = 0
    /\ code = <<>>
    /\ exit_slots = [s \in SlotIds |-> LinkNone]
    /\ exit_pc = 0
    /\ ClassesIdle
    /\ AuxIdle
    /\ stack_slot = BBContext_new(NumSlots).stack_slot
    /\ xmm = BBContext_new(NumSlots).xmm
    /\ panic = FALSE

\* Add or Sub compiled by gen_binop_integer
BinOpInteger ==
    \E ret \in SlotIds :
        /\ loc = "jit"
        /\ op[2] \in BinOpModes
        /\ LET r == gen_binop_integer(op[1], op[2], op[3], op[4]) IN
           IF r.deopt
           THEN loc' = "deopt" /\ stack' = stack
           ELSE loc' = "next" /\ stack' = [stack EXCEPT ![ret] = Imm(r.ret)]
        /\ UNCHANGED <<op, rax>>
        /\ ArithOnly

\* Add, Addri, Sub or Subri compiled with fast_add or fast_sub
FastAddSub ==
    \E ret \in SlotIds :
        /\ loc = "jit"
        /\ op[2] = "fast"
        /\ LET r == IF op[1] = "Add"
                    THEN fast_add(Value_int32(op[3]), Value_int32(op[4]))
                    ELSE fast_sub(Value_int32(op[3]), Value_int32(op[4])) IN
           /\ rax' = Imm(r.ret)
           /\ IF r.generic
              THEN loc' = "generic" /\ stack' = stack
              ELSE loc' = "next" /\ stack' = [stack EXCEPT ![ret] = Imm(r.ret)]
        /\ UNCHANGED op
        /\ ArithOnly

NextArith ==
    \/ BinOpInteger
    \/ FastAddSub

SpecArith == InitArith /\ [][NextArith]_vars

\* the exact result lhs + rhs or lhs - rhs in 64 bits
Exact == IF op[1] = "Add" THEN Addq(op[3], op[4]).sum ELSE Subq(op[3], op[4]).sum

FitsI63(w) == (63 \in w) <=> (62 \in w)

\* C6: when the result fits i63 the fast path stores its fixnum and goes on;
\* when it does not, control leaves the fast path and nothing is stored
C6_AddSubFastPath ==
    loc # "jit" =>
        IF FitsI63(Exact)
        THEN /\ loc = "next"
             /\ \E ret \in SlotIds :
                   stack = [[s \in SlotIds |-> Imm(NIL_VALUE)] EXCEPT
                               ![ret] = Imm(Value_int32(Exact))]
        ELSE /\ loc \in {"deopt", "generic"}
             /\ stack = [s \in SlotIds |-> Imm(NIL_VALUE)]

\* i63::MAX + 1 leaves the fast path
C6_Witness ==
    /\ op[1] = "Add" /\ op[2] = "RR"
    /\ op[3] = I63_MAX /\ op[4] = {0}
    /\ loc = "deopt"


(***************************************************************************)
(* SpecFdiv: float multiplications and divisions on xmm registers          *)
(*                                                                         *)
(* The registers hold 0.0, 1.0 or -1.0 at first; products and quotients    *)
(* of these are zeros, ones, infinities and NaN.                           *)
(***************************************************************************)
F_ONE == 52 .. 61

F_INF == 52 .. 62

\* the default NaN of SSE
F_NAN == 51 .. 63

IsInf(x) == x \ {63} = F_INF

\* the sign of a product or quotient
SignXor(x, y) == IF (63 \in x) # (63 \in y) THEN {63} ELSE {}

\* mulsd on zeros, ones, infinities and NaN
mulsd(x, y) ==
    IF IsNaN(x) \/ IsNaN(y) THEN F_NAN
    ELSE IF (IsInf(x) /\ IsZeroF64(y)) \/ (IsZeroF64(x) /\ IsInf(y)) THEN F_NAN
    ELSE IF IsInf(x) \/ IsInf(y) THEN F_INF \cup SignXor(x, y)
    ELSE IF IsZeroF64(x) \/ IsZeroF64(y) THEN SignXor(x, y)
    ELSE F_ONE \cup SignXor(x, y)

\* divsd on zeros, ones, infinities and NaN
divsd(x, y) ==
    IF IsNaN(x) \/ IsNaN(y) THEN F_NAN
    ELSE IF (IsInf(x) /\ IsInf(y)) \/ (IsZeroF64(x) /\ IsZeroF64(y)) THEN F_NAN
    ELSE IF IsInf(x) \/ IsZeroF64(y) THEN F_INF \cup SignXor(x, y)
    ELSE IF IsZeroF64(x) \/ IsInf(y) THEN SignXor(x, y)
    ELSE F_ONE \cup SignXor(x, y)

\* the registers the model uses
FdivRegs == 0 .. 1

\* rhs as f64, lhs as f64 for the immediates 0, 1 and -1
FdivImms == {0, 1, -1}

const_f64(i) == IF i = 0 THEN {} ELSE IF i = 1 THEN F_ONE ELSE F_ONE \cup {63}

\* testq rax, rax; jeq div_by_zero
test_jeq_div_by_zero(w) == w = {}

\* gen_binop_float(Mul, ...): both branches compute flhs * frhs into fret
gen_binop_float_mul(regs, fret, flhs, frhs) ==
    [regs EXCEPT ![fret] = mulsd(regs[flhs], regs[frhs])]

\* gen_binop_float(Div, ...): x0 is xmm0
gen_binop_float_div(regs, x0, fret, flhs, frhs) ==
    IF fret = frhs
    THEN IF test_jeq_div_by_zero(regs[fret])
         THEN [div_by_zero |-> TRUE, regs |-> regs, xmm0 |-> x0]
         ELSE LET q == divsd(regs[flhs], regs[fret]) IN
              [div_by_zero |-> FALSE, regs |-> [regs EXCEPT ![fret] = q], xmm0 |-> q]
    ELSE LET moved == [regs EXCEPT ![fret] = regs[flhs]] IN
         IF test_jeq_div_by_zero(moved[frhs])
         THEN [div_by_zero |-> TRUE, regs |-> moved, xmm0 |-> x0]
         ELSE [div_by_zero |-> FALSE,
               regs |-> [moved EXCEPT ![fret] = divsd(moved[fret], moved[frhs])],
               xmm0 |-> x0]

\* gen_binop_float_ri(Div, ...)
gen_binop_float_ri_div(regs, fret, flhs, rhs) ==
    LET moved == [regs EXCEPT ![fret] = regs[flhs]] IN
    IF rhs = 0
    THEN [div_by_zero |-> TRUE, regs |-> moved]
    ELSE [div_by_zero |-> FALSE,
          regs |-> [moved EXCEPT ![fret] = divsd(moved[fret], const_f64(rhs))]]

\* gen_binop_float_ir(Div, ...)
gen_binop_float_ir_div(regs, x0, fret, lhs, frhs) ==
    IF fret # frhs
    THEN LET moved == [regs EXCEPT ![fret] = const_f64(lhs)] IN
         IF test_jeq_div_by_zero(moved[frhs])
         THEN [div_by_zero |-> TRUE, regs |-> moved, xmm0 |-> x0]
         ELSE [div_by_zero |-> FALSE,
               regs |-> [moved EXCEPT ![fret] = divsd(moved[fret], moved[frhs])],
               xmm0 |-> x0]
    ELSE IF test_jeq_div_by_zero(regs[frhs])
         THEN [div_by_zero |-> TRUE, regs |-> regs, xmm0 |-> x0]
         ELSE [div_by_zero |-> FALSE,
               regs |-> [regs EXCEPT ![fret] = divsd(const_f64(lhs), regs[frhs])],
               xmm0 |-> regs[frhs]]

FdivOnly ==
    UNCHANGED <<stack_slot, xmm, panic, stack, r13, code, exit_slots, exit_pc,
                methods, func_arity, query, found, icvars, auxvars>>

InitFdiv ==
    /\ \E a \in {{}, F_ONE, F_ONE \cup {63}}, b \in {{}, F_ONE, F_ONE \cup {63}} :
          fpr = [f \in XmmIdx |-> IF f = 0 THEN a ELSE IF f = 1 THEN b ELSE {}]
    /\ loc = "jit"
    /\ op = <<"start">>
    /\ rax = Imm({})
    /\ xmm0 = {}
    /\ stack = [s \in SlotIds |-> Imm(NIL_VALUE)]
    /\ r13 = 0
    /\ code = <<>>
    /\ exit_slots = [s \in SlotIds |-> LinkNone]
    /\ exit_pc = 0
    /\ ClassesIdle
    /\ AuxIdle
    /\ stack_slot = BBContext_new(NumSlots).stack_slot
    /\ xmm = BBContext_new(NumSlots).xmm
    /\ panic = FALSE

\* the outcome of a division: div_by_zero sets the error and returns None
Divided(r, divisor) ==
    /\ fpr' = r.regs
    /\ xmm0' = r.xmm0
    /\ op' = <<"Div", divisor>>
    /\ IF r.div_by_zero
       THEN /\ loc' = "div_by_zero"
            /\ error' = Some("divided by 0")
            /\ rax' = Imm({})
       ELSE /\ loc' = "jit"
            /\ error' = error
            /\ rax' = Imm(divisor)

FloatMul ==
    \E fret \in FdivRegs, flhs \in FdivRegs, frhs \in FdivRegs :
        /\ loc = "jit"
        /\ fpr' = gen_binop_float_mul(fpr, fret, flhs, frhs)
        /\ op' = <<"Mul">>
        /\ UNCHANGED <<loc, rax, xmm0, error>>
        /\ FdivOnly

FloatDiv ==
    \E fret \in FdivRegs, flhs \in FdivRegs, frhs \in FdivRegs :
        /\ loc = "jit"
        /\ Divided(gen_binop_float_div(fpr, xmm0, fret, flhs, frhs), fpr[frhs])
        /\ FdivOnly

FloatDivRI ==
    \E fret \in FdivRegs, flhs \in FdivRegs, rhs \in FdivImms :
        /\ loc = "jit"
        /\ LET r == gen_binop_float_ri_div(fpr, fret, flhs, rhs) IN
           /\ fpr' = r.regs
           /\ op' = <<"Div", const_f64(rhs)>>
           /\ loc' = IF r.div_by_zero THEN "div_by_zero" ELSE "jit"
           /\ error' = IF r.div_by_zero THEN Some("divided by 0") ELSE error
        /\ UNCHANGED <<rax, xmm0>>
        /\ FdivOnly

FloatDivIR ==
    \E fret \in FdivRegs, lhs \in FdivImms, frhs \in FdivRegs :
        /\ loc = "jit"
        /\ Divided(gen_binop_float_ir_div(fpr, xmm0, fret, lhs, frhs), fpr[frhs])
        /\ FdivOnly

NextFdiv ==
    \/ FloatMul
    \/ FloatDiv
    \/ FloatDivRI
    \/ FloatDivIR

SpecFdiv == InitFdiv /\ [][NextFdiv]_vars

\* C7: a division whose divisor is +0.0 or -0.0 ends at div_by_zero
C7_DivByZero ==
    (op[1] = "Div" /\ IsZeroF64(op[2])) => loc = "div_by_zero"

(***************************************************************************)
(* The JIT stub of a function, and the code compiled through it            *)
(***************************************************************************)
\* the method table of the calls: function 1 is "f" of the root class and is
\* inherited by every class, function 2 is "g" of class 2
StubMethods ==
    add_method(add_method(NoMethods, 1, "f", 1), 2, "g", 2)

\* the classes whose instances a call of function f has as self
SelfClasses(f) ==
    {c \in ClassIds : \E n \in Names : find_method(StubMethods, c, n) = Some(f)}

\* exec_jit_compile: the meta is marked and the function is compiled for the
\* class of self
exec_jit_compile(self_class) ==
    [meta |-> "jit", compiled |-> Some(self_class)]

\* subl m32, 1: the memory word is 32 bits wide
subl_1(cnt) ==
    IF cnt = -2147483647 - 1 THEN 2147483647 ELSE cnt - 1

gen_jit_stub_no_counter(cnt, m, comp, self_class) ==
    LET c == subl_1(cnt) IN
    [counter |-> c, stub_entry |-> "jmp",
     meta |-> exec_jit_compile(self_class).meta,
     compiled |-> exec_jit_compile(self_class).compiled,
     where |-> "compiled"]

\* the code of gen_jit_stub run by a call: subl [counter], 1; jne vm_entry;
\* call exec_jit_compile; patch the entry to a jmp; jmp entry
gen_jit_stub(cnt, m, comp, self_class) ==
    LET c == subl_1(cnt) IN
    IF c # 0
    THEN [counter |-> c, stub_entry |-> "stub", meta |-> m,
          compiled |-> comp, where |-> "vm_entry"]
    ELSE [counter |-> c, stub_entry |-> "jmp",
          meta |-> exec_jit_compile(self_class).meta,
          compiled |-> exec_jit_compile(self_class).compiled,
          where |-> "compiled"]

StubOnly ==
    UNCHANGED <<op, jitvars, findvars, icvars, decvars, invvars, edgevars, constvars>>

InitStub ==
    /\ stack_slot = BBContext_new(NumSlots).stack_slot
    /\ xmm = BBContext_new(NumSlots).xmm
    /\ panic = FALSE
    /\ op = <<"init">>
    /\ MachineIdle
    /\ AuxIdle

\* a call of function f enters through its stub
CallStub ==
    \E f \in FuncIds : \E c \in SelfClasses(f) :
        /\ stub_entry[f] = "stub"
        /\ LET r == gen_jit_stub(counter[f], meta[f], compiled[f], c) IN
           /\ counter' = [counter EXCEPT ![f] = r.counter]
           /\ stub_entry' = [stub_entry EXCEPT ![f] = r.stub_entry]
           /\ meta' = [meta EXCEPT ![f] = r.meta]
           /\ compiled' = [compiled EXCEPT ![f] = r.compiled]
           /\ running' = [made |-> TRUE, func |-> f, self_class |-> c,
                          via |-> "stub", before |-> counter[f],
                          where |-> r.where]
        /\ StubOnly

\* a call through the patched entry still runs the code of the stub
CallPatched_runs_stub ==
    \E f \in FuncIds : \E c \in SelfClasses(f) :
        /\ stub_entry[f] = "jmp"
        /\ LET r == gen_jit_stub(counter[f], meta[f], compiled[f], c) IN
           /\ counter' = [counter EXCEPT ![f] = r.counter]
           /\ stub_entry' = [stub_entry EXCEPT ![f] = "jmp"]
           /\ meta' = [meta EXCEPT ![f] = r.meta]
           /\ compiled' = [compiled EXCEPT ![f] = r.compiled]
           /\ running' = [made |-> TRUE, func |-> f, self_class |-> c,
                          via |-> "jmp", before |-> counter[f],
                          where |-> r.where]
        /\ StubOnly

\* a call of function f enters through the jmp its stub was patched to
CallPatched ==
    \E f \in FuncIds : \E c \in SelfClasses(f) :
        /\ stub_entry[f] = "jmp"
        /\ running' = [made |-> TRUE, func |-> f, self_class |-> c,
                       via |-> "jmp", before |-> counter[f],
                       where |-> "compiled"]
        /\ UNCHANGED <<counter, stub_entry, meta, compiled>>
        /\ StubOnly

NextStub == CallStub \/ CallPatched

SpecStub == InitStub /\ [][NextStub]_vars

\* C11: the call that brings the counter of the stub to zero, the fifth call
\* of the function, and only that call, runs exec_jit_compile: the meta is
\* marked as JIT, the function is compiled for the class of the self of the
\* call, the entry of the stub is patched to a jmp and the call goes on in
\* the compiled code; every earlier call runs at vm_entry and leaves the
\* stub, the meta and the compiled code as they were
C11_CompileOnFifthCall ==
    (running.made /\ running.via = "stub") =>
        IF running.before = 1
        THEN /\ StubCounter - running.before = 4
             /\ meta[running.func] = "jit"
             /\ compiled[running.func] = Some(running.self_class)
             /\ stub_entry[running.func] = "jmp"
             /\ running.where = "compiled"
        ELSE /\ meta[running.func] = "vm"
             /\ compiled[running.func] = None
             /\ stub_entry[running.func] = "stub"
             /\ running.where = "vm_entry"
             /\ counter[running.func] = running.before - 1

\* a fifth call of a function has compiled it
C11_Witness ==
    /\ running.made
    /\ running.via = "stub"
    /\ running.before = 1
    /\ running.where = "compiled"

\* C11, as stated: the first call of a function through its stub compiles it
C11_CompileOnFirstCall ==
    (running.made /\ running.via = "stub" /\ running.before = StubCounter) =>
        /\ meta[running.func] = "jit"
        /\ stub_entry[running.func] = "jmp"
        /\ running.where = "compiled"

\* C26: once the entry of the stub of f is a jmp to the compiled code it
\* stays one, and no later call of f decrements the counter, runs
\* exec_jit_compile (meta and the compiled code stay as they are) or runs at
\* vm_entry: f is compiled at most once
C26_CompiledAtMostOnce ==
    [][\A f \in FuncIds :
          stub_entry[f] = "jmp" =>
              /\ stub_entry'[f] = "jmp"
              /\ counter'[f] = counter[f]
              /\ compiled'[f] = compiled[f]
              /\ meta'[f] = meta[f]
              /\ (running' # running /\ running'.func = f) =>
                     (running'.via = "jmp" /\ running'.where = "compiled")]_vars

\* a function compiled on its fifth call has been called again, through the
\* patched entry
C26_Witness ==
    /\ running.made
    /\ running.via = "jmp"
    /\ stub_entry[running.func] = "jmp"
    /\ counter[running.func] = 0
    /\ compiled[running.func] # None
    /\ meta[running.func] = "jit"

\* C18: compiled code runs only with a self of the class it was compiled for
C18_SelfClassGuaranteed ==
    (running.made /\ running.where = "compiled") =>
        compiled[running.func] = Some(running.self_class)

(***************************************************************************)
(* The bytecode decoder (BcOp::from_bc)                                    *)
(***************************************************************************)
\* the number a 16-bit field stands for
U16(w) ==
    LET RECURSIVE Sum(_, _)
        Sum(i, acc) ==
            IF i = 16 THEN acc
            ELSE Sum(i + 1, IF i \in w THEN acc + 2 ^ i ELSE acc)
    IN  Sum(0, 0)

\* x as u16
AsU16(x) == x \cap (0 .. 15)

\* dec_wl: (op1: u16, op2: u32)
dec_wl(w) == <<AsU16(Shr(w, 32)), Low32(w)>>

\* dec_www: (op1: u16, op2: u16, op3: u16)
dec_www(w) == <<AsU16(Shr(w, 32)), AsU16(Shr(w, 16)), AsU16(w)>>

\* SlotId::new
SlotId_new(f) == <<"slot", f>>

\* BrKind::from
BrKind_from(i) ==
    IF i = 0 THEN "BrIf" ELSE IF i = 1 THEN "BrIfNot" ELSE "unreachable"

\* CmpKind::from, as the number of the kind
CmpKind_from(i) == i

\* BinOpK::from
BinOpK_from(i) ==
    IF i \in 0 .. 8
    THEN <<"Add", "Sub", "Mul", "Div", "BitOr", "BitAnd", "BitXor",
           "Shr", "Shl">>[i + 1]
    ELSE "unreachable"

\* unreachable!(): the decoder panics
Unreachable == <<"unreachable">>

IsWide_top_bit(opcode) == (opcode \div 32768) % 2 = 1

\* the layout is chosen on opcode & 0x80
IsWide(opcode) == (opcode \div 128) % 2 = 1

\* BcOp::from_bc
from_bc(b) ==
    LET opcode == U16(AsU16(Shr(b.op1, 48))) IN
    IF ~IsWide(opcode)
    THEN LET d == dec_wl(b.op1)
             op1 == d[1]
             op2 == d[2]
         IN  CASE opcode = 1 -> <<"MethodCall", SlotId_new(op1), <<"ident", op2>> >>
               [] opcode = 2 -> <<"MethodDef", <<"ident", Low32(b.op2)>>,
                                  <<"func", Low32(Shr(b.op2, 32))>> >>
               [] opcode = 3 -> <<"Br", <<"i32", op2>> >>
               [] opcode = 4 -> <<"CondBr", SlotId_new(op1), <<"i32", op2>>,
                                  FALSE, "BrIf">>
               [] opcode = 5 -> <<"CondBr", SlotId_new(op1), <<"i32", op2>>,
                                  FALSE, "BrIfNot">>
               [] opcode = 6 -> <<"Integer", SlotId_new(op1), <<"i32", op2>> >>
               [] opcode = 7 -> <<"Literal", SlotId_new(op1), <<"value", b.op2>> >>
               [] opcode = 8 -> <<"Nil", SlotId_new(op1)>>
               [] opcode = 9 -> <<"Symbol", SlotId_new(op1), <<"ident", op2>> >>
               [] opcode = 10 -> <<"LoadConst", SlotId_new(op1), <<"site", op2>> >>
               [] opcode = 11 -> <<"StoreConst", SlotId_new(op1), <<"ident", op2>> >>
               [] opcode \in 12 .. 13 ->
                      <<"CondBr", SlotId_new(op1), <<"i32", op2>>, TRUE,
                        BrKind_from(opcode - 12)>>
               [] opcode = 14 -> <<"LoopStart", <<"u32", op2>> >>
               [] opcode = 15 -> <<"LoopEnd">>
               [] opcode = 16 -> <<"LoadIvar", SlotId_new(op1), <<"ident", op2>> >>
               [] opcode = 17 -> <<"StoreIvar", SlotId_new(op1), <<"ident", op2>> >>
               [] OTHER -> Unreachable
    ELSE LET d == dec_www(b.op1)
             op1 == d[1]
             op2 == d[2]
             op3 == d[3]
         IN  CASE opcode = 129 -> <<"Neg", SlotId_new(op1), SlotId_new(op2)>>
               [] opcode = 130 -> <<"MethodArgs", SlotId_new(op1), SlotId_new(op2),
                                    <<"u16", op3>> >>
               [] opcode = 131 -> <<"Array", SlotId_new(op1), SlotId_new(op2),
                                    <<"u16", op3>> >>
               [] opcode = 132 -> <<"Index", SlotId_new(op1), SlotId_new(op2),
                                    SlotId_new(op3)>>
               [] opcode = 133 -> <<"IndexAssign", SlotId_new(op1),
                                    SlotId_new(op2), SlotId_new(op3)>>
               [] opcode \in 134 .. 139 ->
                      <<"Cmp", CmpKind_from(opcode - 134), SlotId_new(op1),
                        SlotId_new(op2), SlotId_new(op3), FALSE>>
               [] opcode \in 142 .. 147 ->
                      <<"Cmpri", CmpKind_from(opcode - 142), SlotId_new(op1),
                        SlotId_new(op2), <<"i16", op3>>, FALSE>>
               [] opcode = 148 -> <<"Ret", SlotId_new(op1)>>
               [] opcode = 149 -> <<"Mov", SlotId_new(op1), SlotId_new(op2)>>
               [] opcode = 155 -> <<"ConcatStr", SlotId_new(op1), SlotId_new(op2),
                                    <<"u16", op3>> >>
               [] opcode \in 156 .. 161 ->
                      <<"Cmp", CmpKind_from(opcode - 156), SlotId_new(op1),
                        SlotId_new(op2), SlotId_new(op3), TRUE>>
               [] opcode \in 162 .. 167 ->
                      <<"Cmpri", CmpKind_from(opcode - 162), SlotId_new(op1),
                        SlotId_new(op2), <<"i16", op3>>, TRUE>>
               [] opcode \in 170 .. 178 ->
                      <<"BinOp", BinOpK_from(opcode - 170), SlotId_new(op1),
                        SlotId_new(op2), SlotId_new(op3)>>
               [] opcode \in 180 .. 188 ->
                      <<"BinOpIr", BinOpK_from(opcode - 180), SlotId_new(op1),
                        <<"i16", op2>>, SlotId_new(op3)>>
               [] opcode \in 190 .. 198 ->
                      <<"BinOpRi", BinOpK_from(opcode - 190), SlotId_new(op1),
                        SlotId_new(op2), <<"i16", op3>> >>
               [] OTHER -> Unreachable

\* the opcodes handed to the decoder: every value of the low byte, and values
\* with bits above it
DecOpcodes == (0 .. 255) \cup {256, 257, 385, 32769}

\* the contents of the operand fields
DecFields == {{}, {0}, {1, 15}}

\* the contents of the auxiliary word
DecAux == {{}, {0, 33}}

\* the first word of a Bc: the opcode and three 16-bit fields
BcWord(opcode, f1, f2, f3) ==
    BOr(BOr(Shl(W(opcode), 48), Shl(f1, 32)), BOr(Shl(f2, 16), f3))

DecodeOnly ==
    UNCHANGED <<op, jitvars, findvars, icvars, stubvars, invvars, edgevars, constvars>>

InitDecode ==
    /\ stack_slot = BBContext_new(NumSlots).stack_slot
    /\ xmm = BBContext_new(NumSlots).xmm
    /\ panic = FALSE
    /\ op = <<"init">>
    /\ MachineIdle
    /\ StubIdle
    /\ InvokeIdle
    /\ EdgeIdle
    /\ ConstIdle
    /\ \E o \in DecOpcodes : \E f1, f2, f3 \in DecFields : \E a \in DecAux :
           bc = [op1 |-> BcWord(o, f1, f2, f3), op2 |-> a]
    /\ bcop = <<>>

\* BcOp::from_bc(&bc)
Decode ==
    /\ bcop = <<>>
    /\ bcop' = from_bc(bc)
    /\ UNCHANGED bc
    /\ DecodeOnly

NextDecode == Decode

SpecDecode == InitDecode /\ [][NextDecode]_vars

\* the opcode and the bit fields of the word that was decoded
DecodedOpcode == U16({i - 48 : i \in bc.op1 \cap (48 .. 63)})

Field1 == {i - 32 : i \in bc.op1 \cap (32 .. 47)}

Field2 == {i - 16 : i \in bc.op1 \cap (16 .. 31)}

Field3 == bc.op1 \cap (0 .. 15)

FieldL == bc.op1 \cap (0 .. 31)

\* the closed set of opcodes
OpcodeSet ==
    (1 .. 17) \cup (129 .. 139) \cup (142 .. 149) \cup {155}
        \cup (156 .. 167) \cup (170 .. 178) \cup (180 .. 188) \cup (190 .. 198)

\* the variant of each opcode of the set
VariantOf(o) ==
    CASE o = 1 -> "MethodCall" [] o = 2 -> "MethodDef" [] o = 3 -> "Br"
      [] o \in {4, 5, 12, 13} -> "CondBr" [] o = 6 -> "Integer"
      [] o = 7 -> "Literal" [] o = 8 -> "Nil" [] o = 9 -> "Symbol"
      [] o = 10 -> "LoadConst" [] o = 11 -> "StoreConst"
      [] o = 14 -> "LoopStart" [] o = 15 -> "LoopEnd"
      [] o = 16 -> "LoadIvar" [] o = 17 -> "StoreIvar"
      [] o = 129 -> "Neg" [] o = 130 -> "MethodArgs" [] o = 131 -> "Array"
      [] o = 132 -> "Index" [] o = 133 -> "IndexAssign"
      [] o \in (134 .. 139) \cup (156 .. 161) -> "Cmp"
      [] o \in (142 .. 147) \cup (162 .. 167) -> "Cmpri"
      [] o = 148 -> "Ret" [] o = 149 -> "Mov" [] o = 155 -> "ConcatStr"
      [] o \in 170 .. 178 -> "BinOp" [] o \in 180 .. 188 -> "BinOpIr"
      [] o \in 190 .. 198 -> "BinOpRi"

\* the positions of a decoded instruction that hold operands
OperandPos(d) ==
    CASE d[1] \in {"Cmp", "Cmpri", "BinOp", "BinOpIr", "BinOpRi"} -> 3 .. 5
      [] d[1] = "CondBr" -> 2 .. 3
      [] OTHER -> 2 .. Len(d)

KindNames ==
    <<"Add", "Sub", "Mul", "Div", "BitOr", "BitAnd", "BitXor", "Shr", "Shl">>

\* C12: the decoder returns an instruction exactly for the opcodes of the
\* closed set and panics on every other opcode; bit 7 of the opcode, the high
\* bit of the opcode byte, selects the layout: clear, every operand is the
\* 16-bit field op1, the 32-bit field op2 or a part of the auxiliary word;
\* set, every operand is one of the three 16-bit fields; each opcode has one
\* variant; 134-139 and 156-161 are Cmp with optimizable false and true,
\* 4, 5 and 12, 13 are CondBr unfused and fused, 170-178, 180-188 and 190-198
\* are BinOp, BinOpIr and BinOpRi, and the kind is the opcode minus the base
C12_Decoder ==
    bcop # <<>> =>
        LET o == DecodedOpcode
            s1 == <<"slot", Field1>>
            s2 == <<"slot", Field2>>
            s3 == <<"slot", Field3>>
        IN  /\ (bcop = Unreachable) <=> (o \notin OpcodeSet)
            /\ o \in OpcodeSet =>
                /\ bcop[1] = VariantOf(o)
                /\ \A i \in OperandPos(bcop) :
                       IF o < 128
                       THEN bcop[i][2] \in {Field1, FieldL, bc.op2,
                                            Low32(bc.op2), Low32(Shr(bc.op2, 32))}
                       ELSE bcop[i][2] \in {Field1, Field2, Field3}
                /\ o \in 134 .. 139 =>
                       bcop = <<"Cmp", o - 134, s1, s2, s3, FALSE>>
                /\ o \in 156 .. 161 =>
                       bcop = <<"Cmp", o - 156, s1, s2, s3, TRUE>>
                /\ o \in {4, 5} =>
                       bcop = <<"CondBr", s1, <<"i32", FieldL>>, FALSE,
                                IF o = 4 THEN "BrIf" ELSE "BrIfNot">>
                /\ o \in {12, 13} =>
                       bcop = <<"CondBr", s1, <<"i32", FieldL>>, TRUE,
                                IF o = 12 THEN "BrIf" ELSE "BrIfNot">>
                /\ o \in 170 .. 178 =>
                       bcop = <<"BinOp", KindNames[o - 170 + 1], s1, s2, s3>>
                /\ o \in 180 .. 188 =>
                       bcop = <<"BinOpIr", KindNames[o - 180 + 1], s1,
                                <<"i16", Field2>>, s3>>
                /\ o \in 190 .. 198 =>
                       bcop = <<"BinOpRi", KindNames[o - 190 + 1], s1, s2,
                                <<"i16", Field3>> >>

\* a fused Cmp with three different operand fields was decoded
C12_Witness ==
    /\ bcop # <<>>
    /\ DecodedOpcode = 158
    /\ bcop = <<"Cmp", 2, <<"slot", {0}>>, <<"slot", {1, 15}>>, <<"slot", {}>>, TRUE>>

(***************************************************************************)
(* The invokers and the VM's set_arguments                                 *)
(***************************************************************************)
\* the offset of self in a frame: %0 is at rsp - 0x30 = rsp - (16 + OFFSET_SELF)
OFFSET_SELF == 32

\* rsp when the code runs, and the address handed over as args
InvRsp == 8 * 64

InvArgs == 8 * 128

InvokerKinds ==
    {"method_invoker", "block_invoker", "method_invoker2", "set_arguments"}

\* the invokers whose args is a *const Value: an array in natural order
NaturalOrder(kind) == kind \in {"method_invoker", "block_invoker"}

ArgVals == {"a", "b"}

ArgLists == UNION {[1 .. n -> ArgVals] : n \in 0 .. MaxArgs}

\* the address of callee slot k
CalleeSlot(k) == InvRsp - (16 + OFFSET_SELF) - 8 * k

\* the address the caller keeps argument k at: args + 8k in an array, and the
\* k-th register below the first argument in a frame
ArgAddr(kind, k) ==
    IF NaturalOrder(kind) THEN InvArgs + 8 * k ELSE InvArgs - 8 * k

InvAddrs ==
    {CalleeSlot(k) : k \in 0 .. (MaxArgs + 1)}
        \cup {InvArgs + 8 * k : k \in (0 - MaxArgs) .. MaxArgs}

\* the memory before the call: the arguments where the caller keeps them
InvMemory(kind, args) ==
    [a \in InvAddrs |->
        IF \E k \in 0 .. (Len(args) - 1) : a = ArgAddr(kind, k)
        THEN args[(CHOOSE k \in 0 .. (Len(args) - 1) : a = ArgAddr(kind, k)) + 1]
        ELSE "junk"]

\* the registers at the entry: r8 = args, r9 = len for the invokers;
\* rcx = the first argument address, r8 = len for set_arguments
InvRegs(kind, len) ==
    IF kind = "set_arguments"
    THEN [r8 |-> len, r9 |-> 0, r10 |-> 0, rcx |-> InvArgs, rax |-> 0, rdi |-> 0]
    ELSE [r8 |-> InvArgs, r9 |-> len, r10 |-> 0, rcx |-> 0, rax |-> 0, rdi |-> 0]

\* the code before loop_: of gen_invoker_prep, of method_invoker2 and of
\* set_arguments
prep_entry(kind, r) ==
    IF NaturalOrder(kind)
    THEN IF r.r9 = 0
         THEN [regs |-> [r EXCEPT !.rdi = r.r9], pc |-> "loop_exit"]
         ELSE [regs |-> [r EXCEPT !.rdi = r.r9, !.r10 = r.r9, !.r9 = 0 - r.r9],
               pc |-> "loop_"]
    ELSE IF kind = "method_invoker2"
    THEN IF r.r9 = 0
         THEN [regs |-> [r EXCEPT !.rdi = r.r9], pc |-> "loop_exit"]
         ELSE [regs |-> [r EXCEPT !.rdi = r.r9, !.r9 = 0 - r.r9], pc |-> "loop_"]
    ELSE IF r.r8 = 0
         THEN [regs |-> r, pc |-> "loop_exit"]
         ELSE [regs |-> [r EXCEPT !.r8 = 0 - r.r8], pc |-> "loop_"]

prep_loop_next_slot(kind, r, m) ==
    IF NaturalOrder(kind)
    THEN [src |-> r.r8 + r.r10 * 8 - 8,
          dst |-> InvRsp + r.r9 * 8 - (16 + OFFSET_SELF) + 8,
          regs |-> [r EXCEPT !.rax = m[r.r8 + r.r10 * 8 - 8],
                             !.r10 = r.r10 - 1, !.r9 = r.r9 + 1],
          pc |-> IF r.r9 + 1 # 0 THEN "loop_" ELSE "loop_exit"]
    ELSE IF kind = "method_invoker2"
    THEN [src |-> r.r8 + r.r9 * 8 + 8,
          dst |-> InvRsp + r.r9 * 8 - (16 + OFFSET_SELF) + 8,
          regs |-> [r EXCEPT !.rax = m[r.r8 + r.r9 * 8 + 8], !.r9 = r.r9 + 1],
          pc |-> IF r.r9 + 1 # 0 THEN "loop_" ELSE "loop_exit"]
    ELSE [src |-> r.rcx + r.r8 * 8 + 8,
          dst |-> InvRsp + r.r8 * 8 - (16 + OFFSET_SELF) + 8,
          regs |-> [r EXCEPT !.rax = m[r.rcx + r.r8 * 8 + 8], !.r8 = r.r8 + 1],
          pc |-> IF r.r8 + 1 # 0 THEN "loop_" ELSE "loop_exit"]

\* one pass of loop_: the load, the store, the counters and the jne
prep_loop(kind, r, m) ==
    IF NaturalOrder(kind)
    THEN [src |-> r.r8 + r.r10 * 8 - 8,
          dst |-> InvRsp + r.r9 * 8 - (16 + OFFSET_SELF),
          regs |-> [r EXCEPT !.rax = m[r.r8 + r.r10 * 8 - 8],
                             !.r10 = r.r10 - 1, !.r9 = r.r9 + 1],
          pc |-> IF r.r9 + 1 # 0 THEN "loop_" ELSE "loop_exit"]
    ELSE IF kind = "method_invoker2"
    THEN [src |-> r.r8 + r.r9 * 8 + 8,
          dst |-> InvRsp + r.r9 * 8 - (16 + OFFSET_SELF),
          regs |-> [r EXCEPT !.rax = m[r.r8 + r.r9 * 8 + 8], !.r9 = r.r9 + 1],
          pc |-> IF r.r9 + 1 # 0 THEN "loop_" ELSE "loop_exit"]
    ELSE [src |-> r.rcx + r.r8 * 8 + 8,
          dst |-> InvRsp + r.r8 * 8 - (16 + OFFSET_SELF),
          regs |-> [r EXCEPT !.rax = m[r.rcx + r.r8 * 8 + 8], !.r8 = r.r8 + 1],
          pc |-> IF r.r8 + 1 # 0 THEN "loop_" ELSE "loop_exit"]

InvokeOnly ==
    UNCHANGED <<op, jitvars, findvars, icvars, stubvars, decvars, edgevars, constvars>>

InitInvoke ==
    /\ stack_slot = BBContext_new(NumSlots).stack_slot
    /\ xmm = BBContext_new(NumSlots).xmm
    /\ panic = FALSE
    /\ op = <<"init">>
    /\ MachineIdle
    /\ StubIdle
    /\ DecodeIdle
    /\ EdgeIdle
    /\ ConstIdle
    /\ \E kind \in InvokerKinds : \E args \in ArgLists :
        /\ inv = [pc |-> "entry", kind |-> kind, args |-> args,
                  regs |-> InvRegs(kind, Len(args)), copies |-> <<>>]
        /\ mem = InvMemory(kind, args)

\* the code up to loop_
InvokeEntry ==
    /\ inv.pc = "entry"
    /\ LET e == prep_entry(inv.kind, inv.regs) IN
       inv' = [inv EXCEPT !.pc = e.pc, !.regs = e.regs]
    /\ UNCHANGED mem
    /\ InvokeOnly

\* one pass of loop_
InvokeLoop ==
    /\ inv.pc = "loop_"
    /\ LET l == prep_loop(inv.kind, inv.regs, mem) IN
       /\ inv' = [inv EXCEPT !.pc = l.pc, !.regs = l.regs,
                             !.copies = Append(@, <<l.src, l.dst>>)]
       /\ mem' = [mem EXCEPT ![l.dst] = l.regs.rax]
    /\ InvokeOnly

NextInvoke == InvokeEntry \/ InvokeLoop

SpecInvoke == InitInvoke /\ [][NextInvoke]_vars

\* C13: when the code that sets the arguments is through, argument k is in
\* callee slot k + 1 for every k below len, exactly len copies were made, the
\* k-th of method_invoker and block_invoker from args + 8k, no other word of
\* the callee frame was written, nothing was copied when len = 0, and all
\* four routines filled the same callee slots
C13_ArgumentSlots ==
    inv.pc = "loop_exit" =>
        LET len == Len(inv.args) IN
        /\ \A k \in 0 .. (len - 1) : mem[CalleeSlot(k + 1)] = inv.args[k + 1]
        /\ Len(inv.copies) = len
        /\ {c[2] : c \in {inv.copies[i] : i \in 1 .. len}}
               = {CalleeSlot(k + 1) : k \in 0 .. (len - 1)}
        /\ NaturalOrder(inv.kind) =>
               \A k \in 0 .. (len - 1) :
                   <<InvArgs + 8 * k, CalleeSlot(k + 1)>>
                       \in {inv.copies[i] : i \in 1 .. len}
        /\ \A a \in InvAddrs :
               a \notin {CalleeSlot(k + 1) : k \in 0 .. (len - 1)} =>
                   mem[a] = InvMemory(inv.kind, inv.args)[a]

\* method_invoker is through with the most arguments, which are not all equal
C13_Witness ==
    /\ inv.pc = "loop_exit"
    /\ inv.kind = "method_invoker"
    /\ Len(inv.args) = MaxArgs
    /\ inv.args[1] # inv.args[MaxArgs]
    /\ mem[CalleeSlot(MaxArgs)] = inv.args[MaxArgs]

(***************************************************************************)
(* Merging the pending branches of a basic block, and the code of an edge  *)
(***************************************************************************)
\* the join of two link modes in StackSlotInfo::merge
merge_mode(l, r) ==
    IF l[1] = "XmmR" /\ r[1] \in {"XmmR", "XmmRW"} THEN XmmR(l[2])
    ELSE IF l[1] = "XmmRW" /\ r[1] = "XmmR" THEN XmmR(l[2])
    ELSE IF l[1] = "XmmRW" /\ r[1] = "XmmRW" THEN XmmRW(l[2])
    ELSE LinkNone

merge_keep_first(self, other) == self

\* StackSlotInfo::merge
merge(self, other) ==
    [i \in DOMAIN self |-> merge_mode(self[i], other[i])]

\* StackSlotInfo::merge_entries: the fold over the entries after the first
RECURSIVE merge_from(_, _, _)
merge_from(target, es, k) ==
    IF k > Len(es) THEN target
    ELSE merge_from(merge(target, es[k].stack_slot), es, k + 1)

merge_entries(es) == merge_from(es[1].stack_slot, es, 2)

\* the contexts a block can end with: BBContext::new, then at most n of
\* xmm_write, copy_slot, alloc_xmm_read, write_back_slot and dealloc_xmm
RECURSIVE ReachCtx(_)
ReachCtx(n) ==
    IF n = 0 THEN {BBContext_new(NumSlots)}
    ELSE LET P == ReachCtx(n - 1) IN
         P \cup {xmm_write(c, reg).ctx : c \in P, reg \in SlotIds}
           \cup {copy_slot(c, src, dst).ctx : c \in P, src \in SlotIds, dst \in SlotIds}
           \cup {alloc_xmm_read(c, reg).ctx :
                    c \in {d \in P : \E s \in SlotIds : d.stack_slot[s] = LinkNone},
                    reg \in SlotIds}
           \cup {write_back_slot(c, reg).ctx : c \in P, reg \in SlotIds}
           \cup {dealloc_xmm(c, reg) : c \in P, reg \in SlotIds}

EdgeCtxs == {c \in ReachCtx(MaxOps) : ~c.panic}

\* the contexts of a branch taken after at most one instruction
ShortCtxs == {c \in ReachCtx(1) : ~c.panic}

\* the branches into the block: two, or three that are taken early
EdgeEntries == [1 .. 2 -> EdgeCtxs] \cup [1 .. 3 -> ShortCtxs]

\* the float in register f when the branch is taken: one per register
EdgeFloat(f) == BOr(52 .. 61, Shl(W(f + 1), 40))

\* the machine when the branch of context c is taken: a slot linked to a
\* register has its value there, and a slot read from the stack has it there
EdgeFpr(c) == [f \in XmmIdx |-> IF c.xmm[f] = <<>> THEN {} ELSE EdgeFloat(f)]

EdgeStack(c) ==
    [s \in SlotIds |->
        IF c.stack_slot[s][1] = "XmmR"
        THEN f64_to_val(EdgeFloat(c.stack_slot[s][2]))
        ELSE Imm(NIL_VALUE)]

EdgeOnly == UNCHANGED <<findvars, icvars, stubvars, decvars, invvars, constvars>>

InitEdge ==
    /\ stack_slot = BBContext_new(NumSlots).stack_slot
    /\ xmm = BBContext_new(NumSlots).xmm
    /\ panic = FALSE
    /\ op = <<"pending">>
    /\ MachineIdle
    /\ StubIdle
    /\ DecodeIdle
    /\ InvokeIdle
    /\ ConstIdle
    /\ entries \in EdgeEntries
    /\ merged = <<>>

\* the entries are merged into the context of the block
MergeEntries ==
    /\ op = <<"pending">>
    /\ merged' = merge_entries(entries)
    /\ op' = <<"merged">>
    /\ UNCHANGED <<jitvars, entries>>
    /\ EdgeOnly

\* the branch of entry k is taken, and gen_write_back_for_target has emitted
\* the code of its edge
EdgeTaken ==
    \E k \in 1 .. Len(entries) :
        /\ op = <<"merged">>
        /\ LET r == gen_write_back_for_target(entries[k], merged, 0) IN
           /\ SetCtx(r.ctx)
           /\ code' = r.code
                        \o [j \in 1 .. Len(r.conv_list) |->
                               <<"conv", r.conv_list[j][1], r.conv_list[j][2]>>]
        /\ fpr' = EdgeFpr(entries[k])
        /\ stack' = EdgeStack(entries[k])
        /\ loc' = "edge"
        /\ op' = <<"edge", k>>
        /\ UNCHANGED <<rax, xmm0, r13, exit_slots, exit_pc, entries, merged>>
        /\ EdgeOnly

\* the next instruction of the edge runs
EdgeStep ==
    /\ loc = "edge" /\ code # <<>> /\ ~panic
    /\ LET i == Head(code) IN
       CASE i[1] = "mov" ->
                /\ fpr' = [fpr EXCEPT ![i[2]] = fpr[i[3]]]
                /\ UNCHANGED <<xmm0, rax, stack>>
         [] i[1] = "swap" ->
                /\ xmm0' = fpr[i[2]]
                /\ fpr' = [fpr EXCEPT ![i[2]] = fpr[i[3]], ![i[3]] = fpr[i[2]]]
                /\ UNCHANGED <<rax, stack>>
         [] i[1] = "wb" ->
                /\ xmm0' = fpr[i[2]]
                /\ rax' = f64_to_val(fpr[i[2]])
                /\ stack' = [s \in SlotIds |->
                               IF Contains(i[3], s) THEN f64_to_val(fpr[i[2]])
                               ELSE stack[s]]
                /\ UNCHANGED fpr
         [] i[1] = "conv" ->
                /\ fpr' = [fpr EXCEPT ![i[3]] =
                              gen_val_to_f64_assume_float(stack[i[2]]).f]
                /\ UNCHANGED <<xmm0, rax, stack>>
    /\ code' = Tail(code)
    /\ UNCHANGED <<bbvars, op, loc, r13, exit_slots, exit_pc, entries, merged>>
    /\ EdgeOnly

NextEdge == MergeEntries \/ EdgeTaken \/ EdgeStep

SpecEdge == InitEdge /\ [][NextEdge]_vars

\* C20: the merged slot infos are the fold of the join over all entries: a
\* slot is XmmRW exactly when it is XmmRW in every entry, linked exactly when
\* it is linked in every entry, XmmR when linked in every entry and not XmmRW
\* in all, and a linked slot has the register of the first entry; for two
\* entries that is the table (R l, R _) -> R l, (RW l, R _) -> R l,
\* (R l, RW _) -> R l, (RW l, RW _) -> RW l, anything else -> None
C20_MergeEntries ==
    merged # <<>> =>
        \A i \in SlotIds :
            LET modes == {entries[k].stack_slot[i] : k \in 1 .. Len(entries)} IN
            /\ merged[i][1] = "XmmRW" <=> \A m \in modes : m[1] = "XmmRW"
            /\ IsLinked(merged[i]) <=> \A m \in modes : IsLinked(m)
            /\ IsLinked(merged[i]) => merged[i][2] = entries[1].stack_slot[i][2]
            /\ Len(entries) = 2 =>
                   LET l == entries[1].stack_slot[i]
                       r == entries[2].stack_slot[i]
                   IN  merged[i] =
                           CASE l[1] = "XmmR" /\ r[1] = "XmmR" -> XmmR(l[2])
                             [] l[1] = "XmmRW" /\ r[1] = "XmmR" -> XmmR(l[2])
                             [] l[1] = "XmmR" /\ r[1] = "XmmRW" -> XmmR(l[2])
                             [] l[1] = "XmmRW" /\ r[1] = "XmmRW" -> XmmRW(l[2])
                             [] OTHER -> LinkNone

\* a slot that is XmmRW in register 1 in the first entry and XmmR in another
\* register in the second is merged to XmmR in register 1
C20_Witness ==
    /\ merged # <<>>
    /\ \E s \in SlotIds :
        /\ entries[1].stack_slot[s] = XmmRW(1)
        /\ entries[2].stack_slot[s][1] = "XmmR"
        /\ entries[2].stack_slot[s][2] # 1
        /\ merged[s] = XmmR(1)

\* the code of an edge has run to its end
EdgeDone == op[1] = "edge" /\ code = <<>> /\ ~panic

\* C14: when the code of an edge has run, every slot the merged context links
\* to a register l has the value it had at the branch in l, and is linked to
\* l in the source context as gen_write_back_for_target leaves it
C14_TargetRegisters ==
    EdgeDone =>
        \A i \in SlotIds :
            IsLinked(merged[i]) =>
                /\ IsLinked(stack_slot[i])
                /\ stack_slot[i][2] = merged[i][2]
                /\ fpr[merged[i][2]]
                       = EdgeFloat(entries[op[2]].stack_slot[i][2])

\* C17: the code of an edge holds no write-back that stores to a slot that
\* was in XmmR mode when the branch was taken
C17_NoStoreToXmmR ==
    op[1] = "edge" =>
        \A j \in 1 .. Len(code) :
            code[j][1] = "wb" =>
                \A n \in 1 .. Len(code[j][3]) :
                    entries[op[2]].stack_slot[code[j][3][n]][1] # "XmmR"

(***************************************************************************)
(* Mov and method calls in compiled code, with the machine they run on     *)
(***************************************************************************)
\* cvtsi2sdq: the f64 of a 64-bit integer (exact below 2^53)
cvtsi2sdq(w) ==
    IF w = {} THEN {}
    ELSE LET neg == 63 \in w
             m == IF neg THEN Subq({}, w).sum ELSE w
             e == CHOOSE b \in m : \A c \in m : c <= b
         IN  (IF neg THEN {63} ELSE {})
                 \cup Shl(W(1023 + e), 52)
                 \cup ({b + 52 - e : b \in m \ {e}} \cap Bit)

\* gen_val_to_f64_assume_integer: rdi -> xmm, or the side exit
gen_val_to_f64_assume_integer(v) ==
    IF v[1] # "imm" \/ 0 \notin v[2]
    THEN [side_exit |-> TRUE, f |-> {}]
    ELSE [side_exit |-> FALSE, f |-> cvtsi2sdq(Sar(v[2], 1))]

\* the values the slots hold at the start: nil, the Integers 1 and 2, and the
\* Float 1.0
SlotVals ==
    {Imm(NIL_VALUE), Imm(Value_int32({0})), Imm(Value_int32({1})), f64_to_val(F_ONE)}

\* the value of a slot as the program sees it: an XmmRW slot has it in its
\* register, any other slot on the stack
CurrentValue(s) ==
    IF stack_slot[s][1] = "XmmRW" THEN f64_to_val(fpr[stack_slot[s][2]])
    ELSE stack[s]

\* the write-backs of write_back_range(ctx, arg, len)
RECURSIVE write_back_range(_, _, _)
write_back_range(st, arg, len) ==
    IF len = 0 THEN st
    ELSE LET r == write_back_slot(st.ctx, arg) IN
         write_back_range(
            [ctx |-> r.ctx,
             code |-> IF r.stored
                      THEN st.code \o gen_write_back_single(
                                          st.ctx.stack_slot[arg][2], <<arg>>)
                      ELSE st.code],
            arg + 1, len - 1)

\* gen_method_call up to gen_call: the context and the write-backs emitted
gen_method_call(ctx, ret, recv, args, len) ==
    LET c0 == dealloc_xmm(ctx, ret)
        s1 == write_back_range([ctx |-> c0, code |-> <<>>], recv, 1)
    IN  write_back_range(s1, args, len)

\* the stack after the write-backs of code have run
RECURSIVE run_write_back(_, _, _)
run_write_back(wbs, regs, stk) ==
    IF wbs = <<>> THEN stk
    ELSE run_write_back(Tail(wbs), regs,
            [s \in SlotIds |->
                IF Contains(Head(wbs)[3], s) THEN f64_to_val(regs[Head(wbs)[2]])
                ELSE stk[s]])

SlotsOnly == UNCHANGED <<findvars, icvars, auxvars>>

\* no Mov and no call is being followed
Quiet == op[1] = "jit"

InitSlots ==
    /\ stack_slot = BBContext_new(NumSlots).stack_slot
    /\ xmm = BBContext_new(NumSlots).xmm
    /\ panic = FALSE
    /\ op = <<"jit">>
    /\ rax = Imm({})
    /\ xmm0 = {}
    /\ fpr = [f \in XmmIdx |-> {}]
    /\ loc = "jit"
    /\ stack \in [SlotIds -> SlotVals]
    /\ r13 = 0
    /\ code = <<>>
    /\ exit_slots = [s \in SlotIds |-> LinkNone]
    /\ exit_pc = 0
    /\ ClassesIdle
    /\ AuxIdle

SlFloatWrite == Quiet /\ JitFloatWrite

SlReadFloat == Quiet /\ JitReadFloat

SlStore == Quiet /\ JitStore

\* xmm_read_assume_integer: a linked slot is read from its register; an
\* unlinked one is linked for reading, loaded and converted, or the guard fails
SlReadInteger ==
    \E reg \in SlotIds, pc \in BcPcs :
        /\ Quiet /\ loc = "jit" /\ ~panic
        /\ IF IsLinked(stack_slot[reg])
           THEN UNCHANGED <<bbvars, fpr, rax, xmm0, stack>> /\ NoExit
           ELSE LET r == alloc_xmm_read(Ctx, reg)
                    f == gen_val_to_f64_assume_integer(stack[reg])
                IN  /\ SetCtx(r.ctx)
                    /\ UNCHANGED <<rax, xmm0, stack>>
                    /\ IF r.ctx.panic THEN UNCHANGED fpr /\ NoExit
                       ELSE IF f.side_exit
                       THEN UNCHANGED fpr /\ EnterSideExit(r.ctx, pc)
                       ELSE fpr' = [fpr EXCEPT ![r.freg] = f.f] /\ NoExit
        /\ op' = op
        /\ SlotsOnly

\* Mov dst, src: copy_slot, with the stack copy it emits for an unlinked source
SlMov ==
    \E src \in SlotIds, dst \in SlotIds :
        /\ Quiet /\ loc = "jit" /\ ~panic
        /\ src # dst
        /\ LET r == copy_slot(Ctx, src, dst) IN
           /\ SetCtx(r.ctx)
           /\ IF r.copied
              THEN rax' = stack[src] /\ stack' = [stack EXCEPT ![dst] = stack[src]]
              ELSE UNCHANGED <<rax, stack>>
        /\ op' = <<"mov", src, dst, CurrentValue(src)>>
        /\ SlotsOnly
        /\ UNCHANGED <<xmm0, fpr>>
        /\ NoExit

\* the destination of the Mov is written back: write_back_slot
SlWriteBack ==
    /\ op[1] = "mov" /\ loc = "jit" /\ ~panic
    /\ LET reg == op[3]
           r == write_back_slot(Ctx, reg)
       IN  /\ SetCtx(r.ctx)
           /\ IF r.stored
              THEN LET freg == stack_slot[reg][2] IN
                   /\ xmm0' = fpr[freg]
                   /\ rax' = f64_to_val(fpr[freg])
                   /\ stack' = [stack EXCEPT ![reg] = f64_to_val(fpr[freg])]
              ELSE UNCHANGED <<xmm0, rax, stack>>
    /\ op' = <<"written", op[2], op[3], op[4]>>
    /\ SlotsOnly
    /\ UNCHANGED fpr
    /\ NoExit

\* MethodCall ret, recv, args, len: gen_method_call, the write-backs it emits,
\* the outgoing frame read from the stack, and the result stored to ret
SlMethodCall ==
    \E ret \in SlotIds, recv \in SlotIds, args \in SlotIds, len \in 0 .. NumSlots :
    \E result \in {Imm(NIL_VALUE)} :
        /\ Quiet /\ loc = "jit" /\ ~panic
        /\ args + len <= NumSlots
        /\ LET g == gen_method_call(Ctx, ret, recv, args, len)
               frame == run_write_back(g.code, fpr, stack)
           IN  /\ SetCtx(g.ctx)
               /\ op' = <<"call", {recv} \cup (args .. (args + len - 1)),
                          [s \in SlotIds |-> CurrentValue(s)], frame>>
               /\ stack' = [frame EXCEPT ![ret] = result]
               /\ rax' = result
        /\ SlotsOnly
        /\ UNCHANGED <<xmm0, fpr>>
        /\ NoExit

\* the instructions after the Mov and after the call
SlResume ==
    /\ op[1] \in {"written", "call"}
    /\ op' = <<"jit">>
    /\ UNCHANGED jitvars
    /\ SlotsOnly

NextSlots ==
    \/ SlFloatWrite
    \/ SlReadFloat
    \/ SlReadInteger
    \/ SlStore
    \/ SlMov
    \/ SlWriteBack
    \/ SlMethodCall
    \/ SlResume

SpecSlots == InitSlots /\ [][NextSlots]_vars

\* C15: the receiver and the arguments read from the outgoing frame of a
\* method call are the current values of their slots
C15_FrameIsCurrent ==
    op[1] = "call" => \A s \in op[2] : op[4][s] = op[3][s]

\* C16: when the destination of a Mov is written back, its stack slot holds
\* the value the source had at the Mov, class included
C16_MovPreservesValue ==
    op[1] = "written" => stack[op[3]] = op[4]

\* C22: at the call of a compiled method call every slot that was linked to a
\* live xmm has been written back: the frame holds the current value of
\* every slot
C22_LiveXmmWrittenBack ==
    op[1] = "call" => \A s \in SlotIds : op[4][s] = op[3][s]

\* ---------------------------------------------------------------------------
\* Shl and Shr of two fixnums (gen_shl, gen_shr)
\* ---------------------------------------------------------------------------

\* the highest set bit of a non-zero word
MaxBit(w) == CHOOSE i \in w : \A j \in w : j <= i

\* the number a word below 2^31 stands for
ToNat(w) ==
    LET RECURSIVE Sum(_, _)
        Sum(i, acc) == IF i > 30 THEN acc
                       ELSE Sum(i + 1, IF i \in w THEN acc + 2 ^ i ELSE acc)
    IN Sum(0, 0)

\* lzcntq: the number of leading zero bits, 64 for zero
lzcntq(w) == IF w = {} THEN W(64) ELSE W(63 - MaxBit(w))

negq(x) == Subq({}, x).sum

\* cmpq x, y; jgt: ZF = 0 and SF = OF
jgt(x, y) == LET r == Subq(x, y) IN r.sum # {} /\ ((63 \in r.sum) <=> r.of)

\* cmpq x, y; jge: SF = OF
jge(x, y) == LET r == Subq(x, y) IN (63 \in r.sum) <=> r.of

\* a shift instruction takes its count from the low 6 bits of cl
cl(rcx) == ToNat(rcx \cap (0 .. 5))

salq(x, rcx) == Shl(x, cl(rcx))

sarq(x, rcx) == Sar(x, cl(rcx))

\* under: 0 whatever the sign of rdi
shift_under_zero(rdi) == {}

\* under: -1 for a negative rdi, 0 otherwise
shift_under(rdi) == IF 63 \in rdi THEN Subq({}, {0}).sum ELSE {}

\* lzcntq rax, rdi; cmpq rcx, rax; jgt generic; subq rdi, 1; salq rdi, rcx;
\* after: orq rdi, 1
shl_fast(rdi, rcx) ==
    IF jgt(rcx, lzcntq(rdi))
    THEN [generic |-> TRUE, ret |-> {}]
    ELSE [generic |-> FALSE, ret |-> BOr(salq(Subq(rdi, {0}).sum, rcx), {0})]

\* cmpq rcx, 64; jge under; sarq rdi, rcx; after: orq rdi, 1
shr_fast(rdi, rcx) ==
    IF jge(rcx, W(64))
    THEN [generic |-> FALSE, ret |-> BOr(shift_under(rdi), {0})]
    ELSE [generic |-> FALSE, ret |-> BOr(sarq(rdi, rcx), {0})]

\* rdi and rsi hold the two fixnum Values
gen_shl(rdi, rsi) ==
    LET rcx == Sar(rsi, 1) IN
    IF 63 \in rcx THEN shr_fast(rdi, negq(rcx)) ELSE shl_fast(rdi, rcx)

gen_shr(rdi, rsi) ==
    LET rcx == Sar(rsi, 1) IN
    IF 63 \in rcx THEN shl_fast(rdi, negq(rcx)) ELSE shr_fast(rdi, rcx)

ShiftLhs == Fixnums \cup {W(3), BNot(W(3))}

ShiftCounts ==
    {{}, {0}, {1}, W(60), W(61), W(62), W(63), W(64), W(65), I63_MAX,
     Bit, BNot({0}), BNot(W(60)), BNot(W(61)), BNot(W(62)), BNot(W(63)), BNot(W(64)),
     I63_MIN}

ShiftOnly ==
    UNCHANGED <<stack_slot, xmm, panic, xmm0, fpr, r13, code, exit_slots, exit_pc,
                findvars, icvars, auxvars>>

\* op holds the instruction: its kind and its two fixnum operands
InitShift ==
    /\ \E kind \in {"Shl", "Shr"}, lhs \in ShiftLhs, rhs \in ShiftCounts :
          op = <<kind, lhs, rhs>>
    /\ loc = "jit"
    /\ rax = Imm({})
    /\ xmm0 = {}
    /\ fpr = [f \in XmmIdx |-> {}]
    /\ stack = [s \in SlotIds |-> Imm(NIL_VALUE)]
    /\ r13 = 0
    /\ code = <<>>
    /\ exit_slots = [s \in SlotIds |-> LinkNone]
    /\ exit_pc = 0
    /\ ClassesIdle
    /\ AuxIdle
    /\ stack_slot = BBContext_new(NumSlots).stack_slot
    /\ xmm = BBContext_new(NumSlots).xmm
    /\ panic = FALSE

ShiftStore(r) ==
    \E ret \in SlotIds :
        /\ rax' = Imm(r.ret)
        /\ IF r.generic
           THEN loc' = "generic" /\ stack' = stack
           ELSE loc' = "next" /\ stack' = [stack EXCEPT ![ret] = Imm(r.ret)]
        /\ UNCHANGED op
        /\ ShiftOnly

\* Shl of two fixnums compiled by gen_shl
GenShl ==
    /\ loc = "jit"
    /\ op[1] = "Shl"
    /\ ShiftStore(gen_shl(Value_int32(op[2]), Value_int32(op[3])))

\* Shr of two fixnums compiled by gen_shr
GenShr ==
    /\ loc = "jit"
    /\ op[1] = "Shr"
    /\ ShiftStore(gen_shr(Value_int32(op[2]), Value_int32(op[3])))

NextShift ==
    \/ GenShl
    \/ GenShr

SpecShift == InitShift /\ [][NextShift]_vars

\* the instruction shifts to the left: Shl by c >= 0 or Shr by a negative count
IsLeftShift == (op[1] = "Shl") <=> (63 \notin op[3])

\* the magnitude of the count
ShiftCount == IF 63 \in op[3] THEN negq(op[3]) ELSE op[3]

\* a << c fits i63: a is 0, or the bits of a (of -a - 1 for a negative a) stay
\* below bit 62 after the shift; -1 << 62 is i63::MIN
ShlFitsI63(a, c) ==
    \/ a = {}
    \/ /\ c \subseteq 0 .. 6
       /\ LET k == ToNat(c)
              m == IF 63 \in a THEN BNot(a) ELSE a IN
          IF m = {} THEN k <= 62 ELSE MaxBit(m) + k <= 61

\* C19: when a left shift (gen_shl with a count >= 0, gen_shr with a negative
\* count) is finished on the fast path, a << c fits i63 and the slot written
\* holds tag(a << c); every overflowing shift has gone to the slow path
C19_ShlOverflowDetected ==
    (loc = "next" /\ IsLeftShift) =>
        /\ ShlFitsI63(op[2], ShiftCount)
        /\ \E ret \in SlotIds :
              stack = [[s \in SlotIds |-> Imm(NIL_VALUE)] EXCEPT
                          ![ret] = Imm(Value_int32(Shl(op[2], ToNat(ShiftCount))))]

\* ---------------------------------------------------------------------------
\* Register allocation in a function with MaxLocals slots: slot after slot is
\* assigned the result of a float operation (xmm_write) or read as a float
\* operand (alloc_xmm_read)
\* ---------------------------------------------------------------------------

InitAlloc ==
    /\ stack_slot = BBContext_new(MaxLocals).stack_slot
    /\ xmm = BBContext_new(MaxLocals).xmm
    /\ panic = FALSE
    /\ op = <<"alloc", 0>>
    /\ MachineIdle
    /\ AuxIdle

\* the slot op[2] receives a float result: xmm_write
AllocFloatWrite ==
    /\ ~panic
    /\ op[2] < MaxLocals
    /\ SetCtx(xmm_write(Ctx, op[2]).ctx)
    /\ op' = <<"alloc", op[2] + 1>>
    /\ CompileOnly

\* the slot op[2] is read as a float operand: alloc_xmm_read
AllocFloatRead ==
    /\ ~panic
    /\ op[2] < MaxLocals
    /\ SetCtx(alloc_xmm_read(Ctx, op[2]).ctx)
    /\ op' = <<"alloc", op[2] + 1>>
    /\ CompileOnly

NextAlloc ==
    \/ AllocFloatWrite
    \/ AllocFloatRead

SpecAlloc == InitAlloc /\ [][NextAlloc]_vars

\* C23: alloc_xmm finds a vacant register whenever it is called: the
\* unreachable!() after its scan of the registers is never executed
C23_AllocXmmFindsVacant ==
    op[1] = "alloc" => ~panic

\* the count is 64 or more
BigCount == jge(ShiftCount, W(64))

\* the slot written by the fast path holds v
ShiftStored(v) ==
    /\ loc = "next"
    /\ \E ret \in SlotIds :
          stack = [[s \in SlotIds |-> Imm(NIL_VALUE)] EXCEPT ![ret] = Imm(v)]

\* C28 as stated: a shift by 64 or more stores 0 for a left shift and the
\* sign of the operand for a right shift
C28_ShiftBy64 ==
    (loc # "jit" /\ BigCount) =>
        IF IsLeftShift
        THEN ShiftStored(Value_int32({}))
        ELSE ShiftStored(Value_int32(IF 63 \in op[2] THEN Bit ELSE {}))

\* C28: a right shift by 64 or more stores the sign of the operand (-1 for a
\* negative operand, 0 otherwise); a left shift by 64 or more stores nothing
\* and goes to the generic operation; a negative count reverses the
\* direction: below 64 a right shift stores a >> |c|, and a left shift that
\* stays on the fast path stores the 64-bit word of a << |c|
C28_ShiftUnder ==
    loc # "jit" =>
        IF BigCount
        THEN IF IsLeftShift
             THEN loc = "generic" /\ stack = [s \in SlotIds |-> Imm(NIL_VALUE)]
             ELSE ShiftStored(Value_int32(IF 63 \in op[2] THEN Bit ELSE {}))
        ELSE IF IsLeftShift
             THEN loc = "next" =>
                     ShiftStored(Value_int32(Shl(op[2], ToNat(ShiftCount))))
             ELSE ShiftStored(Value_int32(Sar(op[2], ToNat(ShiftCount))))

\* Shl of a negative operand by a count of -64 or less has stored -1
C28_Witness ==
    /\ op[1] = "Shl"
    /\ 63 \in op[2]
    /\ 63 \in op[3]
    /\ BigCount
    /\ ShiftStored(Value_int32(Bit))

(***************************************************************************)
(* LoadConst and StoreConst: the constant cache of a site and the global   *)
(* constant version                                                        *)
(***************************************************************************)
ConstNames == {"A", "B"}

\* the Values assigned to constants
ConstVals == {Imm(NIL_VALUE), Imm(Value_int32({0})), f64_to_val(F_ONE), HeapFloat(F_INF)}

\* the LoadConst sites: the code generated for each and the constant it names
ConstSites ==
    <<[kind |-> "load_constant", id |-> "A"],
      [kind |-> "load_float_constant", id |-> "A"],
      [kind |-> "load_constant", id |-> "B"]>>

\* const_i64(0), const_i64(-1), const_f64(0.0)
NoConstCache ==
    [cached_value |-> Imm({}), cached_const_version |-> -1, cached_float |-> {}]

\* get_constant: the value of the constant, None (an error) when not defined
get_constant(table, id) == table[id]

\* set_constant
set_constant(table, id, val) == [table EXCEPT ![id] = Some(val)]

\* the constant is assigned and the version is left as it is
jit_store_constant_no_bump(version, table, id, val) ==
    [version |-> version, table |-> set_constant(table, id, val)]

\* jit_store_constant: addq [const_version], 1; call set_constant
jit_store_constant(version, table, id, val) ==
    [version |-> version + 1, table |-> set_constant(table, id, val)]

\* load_constant run on the cache c of its site: the version is compared; on
\* the slow path jit_get_constant, handle_error, then the cache is filled.
\* "to" is where control goes, "rax" the Value stored to dst
load_constant_run(c, version, table, id) ==
    IF version = c.cached_const_version
    THEN [cache |-> c, slow |-> FALSE, to |-> "exit", rax |-> c.cached_value,
          f |-> {}]
    ELSE LET r == get_constant(table, id) IN
         IF r = None
         THEN [cache |-> c, slow |-> TRUE, to |-> "jit_return", rax |-> Imm({}),
               f |-> {}]
         ELSE [cache |-> [c EXCEPT !.cached_value = r[1],
                                   !.cached_const_version = version],
               slow |-> TRUE, to |-> "exit", rax |-> r[1], f |-> {}]

\* load_float_constant: the slow path stores the Value, converts it with a
\* side exit for what is no Float, then stores the f64 and the version
load_float_constant_run(c, version, table, id) ==
    IF version = c.cached_const_version
    THEN [cache |-> c, slow |-> FALSE, to |-> "exit", rax |-> c.cached_value,
          f |-> c.cached_float]
    ELSE LET r == get_constant(table, id) IN
         IF r = None
         THEN [cache |-> c, slow |-> TRUE, to |-> "jit_return", rax |-> Imm({}),
               f |-> {}]
         ELSE LET x == gen_val_to_f64_assume_float(r[1]) IN
              IF x.side_exit
              THEN [cache |-> [c EXCEPT !.cached_value = r[1]],
                    slow |-> TRUE, to |-> "side_exit", rax |-> r[1], f |-> {}]
              ELSE [cache |-> [c EXCEPT !.cached_value = r[1],
                                        !.cached_float = x.f,
                                        !.cached_const_version = version],
                    slow |-> TRUE, to |-> "exit", rax |-> r[1], f |-> x.f]

ConstOnly ==
    UNCHANGED <<op, jitvars, findvars, icvars, stubvars, decvars, invvars, edgevars>>

InitConst ==
    /\ stack_slot = BBContext_new(NumSlots).stack_slot
    /\ xmm = BBContext_new(NumSlots).xmm
    /\ panic = FALSE
    /\ op = <<"init">>
    /\ MachineIdle
    /\ StubIdle
    /\ DecodeIdle
    /\ InvokeIdle
    /\ EdgeIdle
    /\ const_version = 0
    /\ const_table = [n \in ConstNames |-> None]
    /\ const_site = [k \in DOMAIN ConstSites |-> NoConstCache]
    /\ last_load = [made |-> FALSE, stale |-> DOMAIN ConstSites]

\* StoreConst; last_load.stale holds the sites that have not run since the
\* last assignment
StoreConst ==
    \E id \in ConstNames, val \in ConstVals :
        /\ const_version < MaxBumps
        /\ LET r == jit_store_constant(const_version, const_table, id, val) IN
           /\ const_version' = r.version
           /\ const_table' = r.table
        /\ last_load' = [made |-> FALSE, stale |-> DOMAIN ConstSites]
        /\ UNCHANGED const_site
        /\ ConstOnly

\* LoadConst at site k
LoadConst ==
    \E k \in DOMAIN ConstSites :
        /\ LET r == IF ConstSites[k].kind = "load_constant"
                    THEN load_constant_run(const_site[k], const_version,
                                           const_table, ConstSites[k].id)
                    ELSE load_float_constant_run(const_site[k], const_version,
                                                 const_table, ConstSites[k].id)
           IN  /\ const_site' = [const_site EXCEPT ![k] = r.cache]
               /\ last_load' = [made |-> TRUE, site |-> k, slow |-> r.slow,
                                to |-> r.to, rax |-> r.rax, f |-> r.f,
                                first |-> k \in last_load.stale,
                                stale |-> last_load.stale \ {k}]
        /\ UNCHANGED <<const_version, const_table>>
        /\ ConstOnly

NextConst ==
    \/ StoreConst
    \/ LoadConst

SpecConst == InitConst /\ [][NextConst]_vars

\* C27: a LoadConst that takes the fast path finds the version recorded at
\* its site equal to the global constant version and stores the current value
\* of its constant; the first LoadConst at a site after a StoreConst takes
\* the slow path, and stores the value it fetched when it goes on
C27_ConstCacheValid ==
    last_load.made =>
        LET k == last_load.site
            now == get_constant(const_table, ConstSites[k].id)
        IN  /\ ~last_load.slow =>
                  /\ const_site[k].cached_const_version = const_version
                  /\ now = Some(last_load.rax)
                  /\ ~last_load.first
            /\ last_load.first => last_load.slow
            /\ (last_load.slow /\ last_load.to = "exit") =>
                  /\ now = Some(last_load.rax)
                  /\ const_site[k].cached_const_version = const_version
            /\ (ConstSites[k].kind = "load_float_constant" /\ last_load.to = "exit") =>
                  gen_val_to_f64_assume_float(last_load.rax) =
                      [side_exit |-> FALSE, f |-> last_load.f]

\* a site that was filled has, after a StoreConst of its constant with another
\* value, taken the slow path and stored the new value
C27_Witness ==
    /\ last_load.made
    /\ last_load.first
    /\ last_load.slow
    /\ last_load.to = "exit"
    /\ const_version = 2
    /\ const_site[last_load.site].cached_value = last_load.rax
    /\ \E k \in DOMAIN ConstSites :
          /\ k # last_load.site
          /\ ConstSites[k].id = ConstSites[last_load.site].id
          /\ const_site[k].cached_const_version = 1
          /\ const_site[k].cached_value # last_load.rax

(***************************************************************************)
(* Compare and branch: the fused form (gen_cmp_int_opt) and the comparison *)
(* that stores TRUE_VALUE or FALSE_VALUE followed by CondBr or CondNotBr   *)
(***************************************************************************)
CmpKinds == {"eq", "ne", "lt", "le", "gt", "ge"}

BrKinds == {"BrIf", "BrIfNot"}

\* cmpq x, y followed by j<cc> or set<cc>, on the signed condition codes
jcc(cc, x, y) ==
    LET r == Subq(x, y)
        zf == r.sum = {}
        sf == 63 \in r.sum
    IN  CASE cc = "eq" -> zf
          [] cc = "ne" -> ~zf
          [] cc = "lt" -> sf # r.of
          [] cc = "ge" -> sf = r.of
          [] cc = "le" -> zf \/ sf # r.of
          [] cc = "gt" -> ~zf /\ sf = r.of

\* the (sop, rev_sop) pairs cmp_opt_main is instantiated with
rev_sop(sop) ==
    CASE sop = "eq" -> "ne"
      [] sop = "ne" -> "eq"
      [] sop = "gt" -> "le"
      [] sop = "lt" -> "ge"
      [] sop = "ge" -> "lt"
      [] sop = "le" -> "gt"

\* guard_rdi_rsi_fixnum: both Values have the fixnum tag
guard_rdi_rsi_fixnum(lhs, rhs) ==
    /\ lhs[1] = "imm" /\ 0 \in lhs[2]
    /\ rhs[1] = "imm" /\ 0 \in rhs[2]

\* the same jump for both branch kinds
cmp_opt_int_same_jump(sop, brkind, rdi, rsi) == jcc(sop, rdi, rsi)

\* cmp_opt_int_<sop> after cmpq rdi, rsi: j<sop> branch_dest for BrIf,
\* j<rev_sop> branch_dest for BrIfNot
cmp_opt_int(sop, brkind, rdi, rsi) ==
    jcc(IF brkind = "BrIf" THEN sop ELSE rev_sop(sop), rdi, rsi)

\* the generic page of cmp_opt_int_<sop>: orq rax, 0x10; cmpq rax, FALSE_VALUE;
\* BrIf: jz cont; jmp branch_dest.  BrIfNot: jnz cont; jmp branch_dest
cmp_opt_int_generic(brkind, rax_in) ==
    IF brkind = "BrIf" THEN ~or_cmp_false(rax_in) ELSE or_cmp_false(rax_in)

\* cmp_<op>: xorq rax, rax; cmpq rdi, rsi; set<op> rax; shlq rax, 3;
\* orq rax, FALSE_VALUE
cmp_main(cc, rdi, rsi) ==
    BOr(Shl(IF jcc(cc, rdi, rsi) THEN {0} ELSE {}, 3), FALSE_VALUE)

\* the fused compare-and-branch: is the branch taken
gen_cmp_int_opt(kind, brkind, lhs, rhs, res) ==
    IF guard_rdi_rsi_fixnum(lhs, rhs)
    THEN cmp_opt_int(kind, brkind, lhs[2], rhs[2])
    ELSE cmp_opt_int_generic(brkind, Value_get(res))

\* gen_cmp_kind: the Value left in rax and stored to ret
gen_cmp_kind(kind, lhs, rhs, res) ==
    IF guard_rdi_rsi_fixnum(lhs, rhs)
    THEN Imm(cmp_main(kind, lhs[2], rhs[2]))
    ELSE res

\* the operands of a comparison and what the generic function returns
CmpOperands == {Imm(Value_int32(a)) : a \in Fixnums} \cup {HeapObj(1)}

CmpResults == {Imm(TRUE_VALUE), Imm(FALSE_VALUE), Imm(NIL_VALUE), Imm({0})}

CmpOnly ==
    UNCHANGED <<stack_slot, xmm, panic, xmm0, fpr, r13, code, exit_slots, exit_pc,
                findvars, icvars, auxvars>>

\* op holds the comparison, the branch kind, the operands, the Value the
\* generic function returns when an operand is no fixnum, how far the code
\* has run and the slot the comparison alone stores to
InitCmp ==
    /\ \E kind \in CmpKinds, brkind \in BrKinds :
       \E lhs \in CmpOperands, rhs \in CmpOperands :
       \E res \in IF guard_rdi_rsi_fixnum(lhs, rhs) THEN {Imm({})} ELSE CmpResults :
          op = <<kind, brkind, lhs, rhs, res, "compiled", 0>>
    /\ loc = "jit"
    /\ rax = Imm({})
    /\ xmm0 = {}
    /\ fpr = [f \in XmmIdx |-> {}]
    /\ stack = [s \in SlotIds |-> Imm(NIL_VALUE)]
    /\ r13 = 0
    /\ code = <<>>
    /\ exit_slots = [s \in SlotIds |-> LinkNone]
    /\ exit_pc = 0
    /\ ClassesIdle
    /\ AuxIdle
    /\ stack_slot = BBContext_new(NumSlots).stack_slot
    /\ xmm = BBContext_new(NumSlots).xmm
    /\ panic = FALSE

\* the comparison compiled together with the branch that follows it
CmpFused ==
    /\ loc = "jit"
    /\ op[6] = "compiled"
    /\ loc' = IF gen_cmp_int_opt(op[1], op[2], op[3], op[4], op[5])
              THEN "dest" ELSE "next"
    /\ op' = [op EXCEPT ![6] = "fused"]
    /\ UNCHANGED <<rax, stack>>
    /\ CmpOnly

\* the comparison compiled alone: its Value is stored to ret
CmpStore ==
    \E ret \in SlotIds :
        /\ loc = "jit"
        /\ op[6] = "compiled"
        /\ rax' = gen_cmp_kind(op[1], op[3], op[4], op[5])
        /\ stack' = [stack EXCEPT ![ret] = rax']
        /\ op' = [op EXCEPT ![6] = "stored", ![7] = ret]
        /\ UNCHANGED loc
        /\ CmpOnly

\* the CondBr or CondNotBr on ret that follows the comparison
CmpBranch ==
    /\ loc = "jit"
    /\ op[6] = "stored"
    /\ LET r == IF op[2] = "BrIf" THEN CondBr(rax, stack[op[7]])
                ELSE CondNotBr(rax, stack[op[7]]) IN
       /\ rax' = Imm(r.rax)
       /\ loc' = IF r.taken THEN "dest" ELSE "next"
    /\ op' = [op EXCEPT ![6] = "unfused"]
    /\ UNCHANGED stack
    /\ CmpOnly

NextCmp ==
    \/ CmpFused
    \/ CmpStore
    \/ CmpBranch

SpecCmp == InitCmp /\ [][NextCmp]_vars

\* a < b for two 64-bit words read as signed numbers
SignedLess(a, b) ==
    \/ 63 \in a /\ 63 \notin b
    \/ /\ (63 \in a) <=> (63 \in b)
       /\ \E i \in Bit : /\ i \in b /\ i \notin a
                         /\ \A j \in (i + 1) .. 63 : (j \in a) <=> (j \in b)

\* the comparison holds: for two fixnums by their numbers, otherwise by the
\* Value the generic function returned (nil and false are falsy)
CmpHolds ==
    IF guard_rdi_rsi_fixnum(op[3], op[4])
    THEN LET a == Sar(op[3][2], 1)
             b == Sar(op[4][2], 1)
         IN  CASE op[1] = "eq" -> a = b
               [] op[1] = "ne" -> a # b
               [] op[1] = "lt" -> SignedLess(a, b)
               [] op[1] = "le" -> SignedLess(a, b) \/ a = b
               [] op[1] = "gt" -> SignedLess(b, a)
               [] op[1] = "ge" -> SignedLess(b, a) \/ a = b
    ELSE op[5] \notin {Imm(FALSE_VALUE), Imm(NIL_VALUE)}

\* C29: the fused compare-and-branch and the comparison followed by CondBr or
\* CondNotBr both take the branch exactly when the comparison holds for BrIf
\* and exactly when it does not for BrIfNot, for fixnum operands and on the
\* generic path
C29_FusedBranchAgrees ==
    op[6] \in {"fused", "unfused"} =>
        (loc = "dest") = (IF op[2] = "BrIf" THEN CmpHolds ELSE ~CmpHolds)

\* a fused BrIfNot on i63::MIN < i63::MAX has not branched, where the
\* subtraction of the tagged words overflows
C29_Witness ==
    /\ op[6] = "fused"
    /\ op[1] = "lt"
    /\ op[2] = "BrIfNot"
    /\ op[3] = Imm(Value_int32(I63_MIN))
    /\ op[4] = Imm(Value_int32(I63_MAX))
    /\ loc = "next"

(***************************************************************************)
(* SpecBit: the fast paths of BitOr, BitAnd and BitXor                     *)
(*                                                                         *)
(* The operands of the model are the words of two Values; the guards send  *)
(* every operand that is not a fixnum to the generic function.             *)
(***************************************************************************)
\* xorq
BXor(x, y) == (x \ y) \cup (y \ x)

\* orq rdi, rsi
gen_bit_or(rdi, rsi) == BOr(rdi, rsi)

\* andq rdi, rsi
gen_bit_and(rdi, rsi) == BAnd(rdi, rsi)

\* xorq without the addq that restores the tag
gen_bit_xor_no_tag(rdi, rsi) == BXor(rdi, rsi)

\* xorq rdi, rsi; addq rdi, 1
gen_bit_xor(rdi, rsi) == Addq(BXor(rdi, rsi), {0}).sum

\* generic_bit_or, generic_bit_and, generic_bit_xor of the interpreter
generic_bit(kind, rdi, rsi) ==
    CASE kind = "BitOr" -> BOr(rdi, rsi)
      [] kind = "BitAnd" -> BAnd(rdi, rsi)
      [] kind = "BitXor" -> Addq(BXor(rdi, rsi), {0}).sum

\* guard_binary_fixnum_with_mode: TRUE when the fast path is entered
guard_binary_fixnum_with_mode(mode, rdi, rsi) ==
    CASE mode = "RR" -> 0 \in rdi /\ 0 \in rsi
      [] mode = "RI" -> 0 \in rdi
      [] mode = "IR" -> 0 \in rsi

\* words of Values that are no fixnum: nil, true, a flonum, a heap address
NonFixnumWords == {NIL_VALUE, TRUE_VALUE, {1, 52, 62}, W(4096)}

BitWords == {Value_int32(n) : n \in Fixnums} \cup NonFixnumWords

BitImms == {Value_int32(n) : n \in Imm16s}

BitOnly ==
    UNCHANGED <<stack_slot, xmm, panic, xmm0, fpr, r13, code, exit_slots, exit_pc,
                findvars, icvars, auxvars>>

\* op holds the instruction: its kind, its mode ("vm" for the interpreter)
\* and the words of its two operands
InitBit ==
    /\ \E kind \in {"BitOr", "BitAnd", "BitXor"}, mode \in BinOpModes \cup {"vm"} :
          \E lhs \in IF mode = "IR" THEN BitImms ELSE BitWords,
             rhs \in IF mode = "RI" THEN BitImms ELSE BitWords :
              op = <<kind, mode, lhs, rhs>>
    /\ loc = "jit"
    /\ rax = Imm({})
    /\ xmm0 = {}
    /\ fpr = [f \in XmmIdx |-> {}]
    /\ stack = [s \in SlotIds |-> Imm(NIL_VALUE)]
    /\ r13 = 0
    /\ code = <<>>
    /\ exit_slots = [s \in SlotIds |-> LinkNone]
    /\ exit_pc = 0
    /\ ClassesIdle
    /\ AuxIdle
    /\ stack_slot = BBContext_new(NumSlots).stack_slot
    /\ xmm = BBContext_new(NumSlots).xmm
    /\ panic = FALSE

\* BitOr, BitAnd or BitXor compiled by gen_binop_integer
GenBit ==
    \E ret \in SlotIds :
        /\ loc = "jit"
        /\ op[2] \in BinOpModes
        /\ IF guard_binary_fixnum_with_mode(op[2], op[3], op[4])
           THEN /\ loc' = "next"
                /\ stack' = [stack EXCEPT ![ret] =
                       Imm(CASE op[1] = "BitOr" -> gen_bit_or(op[3], op[4])
                             [] op[1] = "BitAnd" -> gen_bit_and(op[3], op[4])
                             [] op[1] = "BitXor" -> gen_bit_xor(op[3], op[4]))]
           ELSE loc' = "generic" /\ stack' = stack
        /\ UNCHANGED <<op, rax>>
        /\ BitOnly

\* BitOr, BitAnd or BitXor of the interpreter
VmBit ==
    \E ret \in SlotIds :
        /\ loc = "jit"
        /\ op[2] = "vm"
        /\ IF guard_binary_fixnum_with_mode("RR", op[3], op[4])
           THEN /\ loc' = "next"
                /\ stack' = [stack EXCEPT ![ret] = Imm(generic_bit(op[1], op[3], op[4]))]
           ELSE loc' = "generic" /\ stack' = stack
        /\ UNCHANGED <<op, rax>>
        /\ BitOnly

NextBit ==
    \/ GenBit
    \/ VmBit

SpecBit == InitBit /\ [][NextBit]_vars

\* the integer of a fixnum word
BitUntag(x) == Sar(x, 1)

\* a | b, a & b or a ^ b of the integers of the two operands
BitExact ==
    LET a == BitUntag(op[3])
        b == BitUntag(op[4])
    IN  CASE op[1] = "BitOr" -> {i \in Bit : i \in a \/ i \in b}
          [] op[1] = "BitAnd" -> {i \in Bit : i \in a /\ i \in b}
          [] op[1] = "BitXor" -> {i \in Bit : (i \in a) # (i \in b)}

\* C30: for two fixnum operands the fast path of BitOr, BitAnd and BitXor
\* goes on to the next instruction with the fixnum of a | b, a & b or a ^ b
\* in the slot ret, and that integer fits i63
C30_BitFastPathTagged ==
    (op[1] \in {"BitOr", "BitAnd", "BitXor"} /\ loc # "jit"
        /\ 0 \in op[3] /\ 0 \in op[4]) =>
        /\ loc = "next"
        /\ FitsI63(BitExact)
        /\ \E ret \in SlotIds :
              /\ stack[ret] = Imm(Value_int32(BitExact))
              /\ \A s \in SlotIds \ {ret} : stack[s] = Imm(NIL_VALUE)

\* i63::MIN ^ i63::MAX = -1 has been stored by the compiled fast path
C30_Witness ==
    /\ op = <<"BitXor", "RR", Value_int32(I63_MIN), Value_int32(I63_MAX)>>
    /\ loc = "next"
    /\ \E ret \in SlotIds : stack[ret] = Imm(Value_int32(Bit))

====
